---- MODULE Spec2Model ----
(***************************************************************************)
(* A model of the CA-13 analysis scripts (alizahir23/ca13_analysis).        *)
(*                                                                         *)
(* The repository is a set of independent scripts.  Each script is         *)
(* modelled as its own state machine over its own variables, with one      *)
(* specification per script:                                               *)
(*   SpecFEC      financial/fec-data-fetcher.py and the two readers of the *)
(*                file it writes (ca13-finance-analyzer.py,                *)
(*                top-candidates-analyzer.py)                              *)
(*   SpecAnalyzer ca13-initial-setup.py, any sequence of method calls on   *)
(*                one CA13Analyzer                                         *)
(*   SpecCtor     the constructors of the analyzer classes, run in any     *)
(*                order in one working directory that starts out empty     *)
(*   SpecDistrict district_processor.py, one run of __main__               *)
(*   SpecCounty   county-data-processor.py, summarize_district_results     *)
(*   SpecTurnout  exploration/ca13-potential-analysis.py,                  *)
(*                analyze_turnout_impact                                   *)
(*   SpecModels   models/data-collection-fec.py, congressional-model-v3.py *)
(*                and congressional-model-v4.py, one run of one of them    *)
(*   SpecCollect  collect_codebase.py, one walk of the project tree        *)
(*   SpecGate     the __main__ blocks that call a loader before analysing  *)
(*   SpecFinance  financial/ca13-finance-analyzer.py, CA13FinanceAnalyzer  *)
(*   SpecVoter    demographic_analyzer.py save_analysis, then              *)
(*                election_analyzer.py analyze_voter_potential             *)
(*   SpecGIS      spatial_analysis/ca13-gis-maps.py, one run of the script *)
(* None of Python's values is left abstract where a claim depends on it:   *)
(* None is a flag of the returned record, an exception is an outcome       *)
(* "raised" that try/except turns into a return.                           *)
(***************************************************************************)
EXTENDS Integers, Sequences, FiniteSets, TLC

VARIABLES
    \* ---- fec-data-fetcher.py, one run of __main__ ----
    fpc,          \* position of __main__ / fetch_and_save_all_data
    freqs,        \* every HTTP request issued so far, in order
    lastCall,     \* the last fetch_* call: its HTTP response and its outcome
    fcandidates,  \* the list fetch_ca13_candidates returned
    fidx,         \* position of the for loop over candidates (1-based)
    fcomp,        \* comprehensive_data['candidates'], an insertion-ordered dict
    fret,         \* what fetch_and_save_all_data returned
    rawFile,      \* whether ca13_candidates_raw.json was written
    disk,         \* ca13_comprehensive_data.json on disk
    \* ---- the readers of ca13_comprehensive_data.json ----
    lastRead,     \* the last run of a reader script: what it saw, and when
    \* ---- ca13-initial-setup.py: one CA13Analyzer object ----
    district_boundary,  \* self.district_boundary (0: None, else the table read)
    precinct_data,      \* self.precinct_data
    census_data,        \* self.census_data
    election_data,      \* self.election_data
    aLast,              \* the last method call, its result and the attributes before it
    aLoads,             \* per attribute: "never" loaded, "loaded", or "failed_after"
                        \* (a failed load after a successful one)
    \* ---- the working directory the scripts are started in ----
    fsDirs,             \* the directories that exist below it (relative paths)
    cLast,              \* the last constructor run and how it ended
    \* ---- district_processor.py, one run of __main__ ----
    dpc,                \* position in __main__ / process_district_data
    dcolumns,           \* self.district_data.columns (a set; "none" before the read)
    dcol,               \* district_col ("" while None)
    dprompted,          \* whether input() was called
    dvalues,            \* the values of column district_col, one per row
    dmatched,           \* len(self.ca13_data) (-1 while ca13_data is None)
    dfile,              \* CA13_boundary.geojson as this run left it
    dmaps,              \* whether CA13_maps.png was saved
    dret,               \* what process_district_data returned
    dwhy,               \* why it returned False
    danalyzed,          \* whether analyze_district_data ran
    \* ---- county-data-processor.py: one call of summarize_district_results ----
    kpc,                \* "loop" over the counties, then "save", then "done"
    kidx,               \* position of the loop over county_template (1-based)
    ksum,               \* district_summary
    kexpect,            \* the totals of the in_ca13 == 'Yes' rows of the files read
                        \* so far, and of each county (kept beside the program)
    kjson,              \* ca13_2022_summary.json as this call left it
    kreport,            \* ca13_2022_report.txt as this call left it
    kret,               \* how the call ended
    \* ---- ca13-potential-analysis.py: one call of analyze_turnout_impact ----
    tpc,                \* "total" (first inner loop), "shares" (second), "plot", "done"
    tdemo,              \* self.demographics (cvap and turnout_rate, in percent)
    timp,               \* position of the loop over improvements (1-based)
    ttotal,             \* total_votes of the scenario being computed
    tscen,              \* scenarios: improvement (in points) -> shares
    \* ---- models/: one run of a leave-one-out script ----
    mpc,                \* "start", "loo", "evaluate", "save", "done"
    mscript,            \* which script runs ("" before it starts)
    mdata,              \* the rows the prepare_* method returned
    mfolds,             \* per fold so far: the positions and targets fitted on, the held-out position
    mactuals,           \* actuals
    mfirst,             \* the first regressor's predictions (rf / gb)
    msecond,            \* the second regressor's predictions (lr / ridge / robust)
    mreturned,          \* the actual values the evaluation returned
    mcsv,               \* the rows of the saved predictions CSV
    \* ---- collect_codebase.py: one call of collect_codebase ----
    wpc,                \* "open", "walk", "files", "closed"
    wfs,                \* the files under the project root: [dir, name]
    wunreadable,        \* the files that cannot be read
    wpending,           \* the directories os.walk still has to yield (a stack)
    wroot,              \* root of the current os.walk iteration
    wfiles,             \* files of the current iteration not yet looked at
    wvisited,           \* the directories os.walk has yielded
    wout,               \* the sections written to the output file, in order
    \* ---- the __main__ blocks that test a loader's boolean result ----
    gpc,                \* per script: "start", "analysis", "message", "done", "crashed"
    gret,               \* per script: what the loader returned ("none" before the call)
    gran,               \* per script: the analysis steps called so far, in order
    gmsg,               \* per script: whether the failure message was printed
    \* ---- ca13-finance-analyzer.py: one CA13FinanceAnalyzer object ----
    npc,                \* "new" before the constructor ran, then "constructed"
    ndisk,              \* ca13_comprehensive_data.json as it is now
    ndata,              \* self.data: whether the attribute exists, and its value
    nloads,             \* every load_data call so far: what it saw and returned
    nlast,              \* the last method call and how it ended
    \* ---- election_analyzer.py after demographic_analyzer.py ----
    vpc,                \* "start", "groups", "report", "done", "crashed"
    vcvap,              \* the CVAP columns of the district data the earlier run analysed
    vfile,              \* CA13_demographic_analysis.txt: the percentages it lists
    vtext,              \* demographic_text
    vgroup,             \* position of the loop over historical_turnout (1-based)
    vvoters,            \* demographic_voters
    \* ---- spatial_analysis/ca13-gis-maps.py run as a script ----
    xpc,                \* "import" (module level), "check", "maps", "done", "crashed"
    xline,              \* the import statement to run next (its line number)
    xstart,             \* the packages installed when the script starts
    xinstalled,         \* the packages installed now
    xfiles,             \* the shapefiles present below data/spatial/raw
    xcheck,             \* whether the try block of __main__ was entered
    xpip,               \* whether pip install was called
    xmaps               \* the maps created so far, in order

fecVars == <<fpc, freqs, lastCall, fcandidates, fidx, fcomp, fret, rawFile, disk,
             lastRead>>

anVars == <<district_boundary, precinct_data, census_data, election_data, aLast, aLoads>>

ctorVars == <<fsDirs, cLast>>

dpVars == <<dpc, dcolumns, dcol, dprompted, dvalues, dmatched, dfile, dmaps, dret, dwhy,
            danalyzed>>

cdVars == <<kpc, kidx, ksum, kexpect, kjson, kreport, kret>>

tpVars == <<tpc, tdemo, timp, ttotal, tscen>>

mlVars == <<mpc, mscript, mdata, mfolds, mactuals, mfirst, msecond, mreturned, mcsv>>

ccVars == <<wpc, wfs, wunreadable, wpending, wroot, wfiles, wvisited, wout>>

gateVars == <<gpc, gret, gran, gmsg>>

finVars == <<npc, ndisk, ndata, nloads, nlast>>

voterVars == <<vpc, vcvap, vfile, vtext, vgroup, vvoters>>

gisVars == <<xpc, xline, xstart, xinstalled, xfiles, xcheck, xpip, xmaps>>

vars == <<fecVars, anVars, ctorVars, dpVars, cdVars, tpVars,
         mlVars,
         ccVars,
         gateVars,
         finVars,
         voterVars,
         gisVars>>

\* The variables of the other scripts, which a script's steps leave alone.
notFEC == <<anVars, ctorVars, dpVars, cdVars, tpVars,
    mlVars,
    ccVars,
    gateVars,
    finVars,
    voterVars,
    gisVars>>
notAN == <<fecVars, ctorVars, dpVars, cdVars, tpVars,
    mlVars,
    ccVars,
    gateVars,
    finVars,
    voterVars,
    gisVars>>
notCtor == <<fecVars, anVars, dpVars, cdVars, tpVars,
    mlVars,
    ccVars,
    gateVars,
    finVars,
    voterVars,
    gisVars>>
notDP == <<fecVars, anVars, ctorVars, cdVars, tpVars,
    mlVars,
    ccVars,
    gateVars,
    finVars,
    voterVars,
    gisVars>>
notCD == <<fecVars, anVars, ctorVars, dpVars, tpVars,
    mlVars,
    ccVars,
    gateVars,
    finVars,
    voterVars,
    gisVars>>
notTP == <<fecVars, anVars, ctorVars, dpVars, cdVars,
    mlVars,
    ccVars,
    gateVars,
    finVars,
    voterVars,
    gisVars>>
notML == <<fecVars, anVars, ctorVars, dpVars, cdVars, tpVars,
    ccVars,
    gateVars,
    finVars,
    voterVars,
    gisVars>>
notCC == <<fecVars, anVars, ctorVars, dpVars, cdVars, tpVars, mlVars,
    gateVars,
    finVars,
    voterVars,
    gisVars>>
notGate == <<fecVars, anVars, ctorVars, dpVars, cdVars, tpVars, mlVars, ccVars,
    finVars,
    voterVars,
    gisVars>>
notFin == <<fecVars, anVars, ctorVars, dpVars, cdVars, tpVars, mlVars, ccVars, gateVars,
    voterVars,
    gisVars>>
notVoter == <<fecVars, anVars, ctorVars, dpVars, cdVars, tpVars, mlVars, ccVars, gateVars, finVars,
    gisVars>>
notGIS == <<fecVars, anVars, ctorVars, dpVars, cdVars, tpVars, mlVars, ccVars, gateVars, finVars, voterVars>>


\* ------------------------------------------------------------------------
\* Bounds of the model
\* ------------------------------------------------------------------------
\* Longest 'results' list a candidate search answers with.
MaxResults == 2

\* candidate_id values; 0 stands for a missing / None / empty id (falsy).
CandidateIds == {0, 1, 2}
\* candidate names (dictionary keys of the saved map).
CandidateNames == {"GRAY", "DUARTE"}

Candidates == [candidate_id : CandidateIds, name : CandidateNames]

RECURSIVE SeqsUpTo(_, _)
SeqsUpTo(S, n) ==
    IF n = 0 THEN {<<>>}
    ELSE LET shorter == SeqsUpTo(S, n - 1)
         IN  shorter \cup {Append(s, x) : s \in {t \in shorter : Len(t) = n - 1}, x \in S}

\* ------------------------------------------------------------------------
\* Python outcomes: a call either raises or returns; a returned value is
\* None or a list.
\* ------------------------------------------------------------------------
Raise == [raised |-> TRUE, none |-> FALSE, val |-> <<>>]
ReturnNone == [raised |-> FALSE, none |-> TRUE, val |-> <<>>]
Return(v) == [raised |-> FALSE, none |-> FALSE, val |-> v]

\* Python truthiness of a returned value (`if not candidates`, `if financials`).
Truthy(o) == ~o.raised /\ ~o.none /\ Len(o.val) > 0

\* ------------------------------------------------------------------------
\* The HTTP layer: what requests.get can produce.
\* ------------------------------------------------------------------------
\* kind "exc": requests.get raised (network error).  Otherwise a response
\* with a status code and a body that is not JSON, JSON without the key
\* 'results', or JSON with 'results'.
HttpStatuses == {200, 404}

Responses(ResultLists) ==
    {[kind |-> "exc", status |-> 0, json |-> FALSE, haskey |-> FALSE, results |-> <<>>]}
    \cup [kind : {"resp"}, status : HttpStatuses \ {200}, json : {FALSE},
          haskey : {FALSE}, results : {<<>>}]
    \cup [kind : {"resp"}, status : {200}, json : {FALSE}, haskey : {FALSE},
          results : {<<>>}]
    \cup [kind : {"resp"}, status : {200}, json : {TRUE}, haskey : {FALSE},
          results : {<<>>}]
    \cup [kind : {"resp"}, status : {200}, json : {TRUE}, haskey : {TRUE},
          results : ResultLists]

SearchResponses == Responses(SeqsUpTo(Candidates, MaxResults))

\* The totals endpoint answers with an empty list or one totals record.
TotalsResponses(cid) == Responses({<<>>, <<[totals_of |-> cid]>>})

\* A request failed when it did not produce a 200 response.
Failed(resp) == resp.kind = "exc" \/ resp.status # 200

NoResponse == [kind |-> "none", status |-> 0, json |-> FALSE, haskey |-> FALSE,
               results |-> <<>>]

\* ------------------------------------------------------------------------
\* FECDataFetcher
\* ------------------------------------------------------------------------
\* `except Exception as e: print(...); return None`
ExceptReturnNoneMutant(o) == o
ExceptReturnNone(o) == IF o.raised THEN ReturnNone ELSE o

\* test_api_connection: True on status 200, False on any other status and on
\* an exception.
test_api_connection(resp) ==
    IF resp.kind = "exc" THEN FALSE      \* except Exception: return False
    ELSE resp.status = 200

\* The try block of fetch_ca13_candidates.  rawOk: whether opening and writing
\* ca13_candidates_raw.json succeeds.
fetch_ca13_candidates_try(resp, rawOk) ==
    IF resp.kind = "exc" THEN Raise                   \* requests.get raised
    ELSE IF resp.status = 200 THEN
        IF ~resp.json THEN Raise                      \* response.json() raised
        ELSE IF ~rawOk THEN Raise                     \* open(...,'w') raised
        ELSE IF ~resp.haskey THEN Raise               \* data['results']: KeyError
        ELSE Return(resp.results)
    ELSE ReturnNone

fetch_ca13_candidates(resp, rawOk) ==
    ExceptReturnNone(fetch_ca13_candidates_try(resp, rawOk))

\* ca13_candidates_raw.json is written before data['results'] is looked up.
RawWritten(resp, rawOk) ==
    resp.kind = "resp" /\ resp.status = 200 /\ resp.json /\ rawOk

\* The try block of fetch_candidate_financials.
fetch_candidate_financials_try(resp) ==
    IF resp.kind = "exc" THEN Raise
    ELSE IF resp.status = 200 THEN
        IF ~resp.json THEN Raise
        ELSE IF ~resp.haskey THEN Raise               \* response.json()['results']
        ELSE Return(resp.results)
    ELSE ReturnNone

fetch_candidate_financials(resp) ==
    ExceptReturnNone(fetch_candidate_financials_try(resp))

\* ------------------------------------------------------------------------
\* comprehensive_data['candidates']: a dict keeps insertion order; assigning
\* to a key that is present replaces the value in place.
\* ------------------------------------------------------------------------
DictHas(d, k) == \E i \in 1..Len(d) : d[i].name = k

DictSet(d, k, v) ==
    IF DictHas(d, k)
    THEN [i \in 1..Len(d) |-> IF d[i].name = k THEN v ELSE d[i]]
    ELSE Append(d, v)

Entry(candidate, financials) ==
    [name |-> candidate.name, candidate_info |-> candidate,
     financial_data |-> financials]

\* ------------------------------------------------------------------------
\* The JSON document on disk, as the sequence of chunks json.dump writes.
\* ------------------------------------------------------------------------
NoCandidate == [candidate_id |-> 0, name |-> ""]
Chunk(t) == [t |-> t, name |-> "", candidate_info |-> NoCandidate,
             financial_data |-> <<>>]
CandidateChunk(e) == [t |-> "candidate", name |-> e.name,
                      candidate_info |-> e.candidate_info,
                      financial_data |-> e.financial_data]

\* A document that holds the candidates map alone, without the 'district' and
\* 'fetch_date' keys that lines 110-111 put first.
DocCandidatesOnly(comp) ==
    [i \in 1..Len(comp) |-> CandidateChunk(comp[i])] \o <<Chunk("end")>>

Doc(comp) ==
    <<Chunk("district:CA-13"), Chunk("fetch_date")>>
    \o [i \in 1..Len(comp) |-> CandidateChunk(comp[i])]
    \o <<Chunk("end")>>

Prefix(s, k) == SubSeq(s, 1, k)

\* json.load succeeds exactly on a complete document.
Parses(content) == Len(content) > 0 /\ content[Len(content)].t = "end"

\* A file some earlier run of the fetcher left behind.
OldDoc == Doc(<<Entry([candidate_id |-> 1, name |-> "GRAY"], <<[totals_of |-> 1]>>)>>)

\* ------------------------------------------------------------------------
\* __main__ and fetch_and_save_all_data, step by step
\* ------------------------------------------------------------------------
NoCall == [fn |-> "none", resp |-> NoResponse, out |-> ReturnNone]
NoRead == [who |-> "none", during |-> FALSE, existed |-> FALSE, seen |-> <<>>,
           raised |-> FALSE, ret |-> "none", hasData |-> FALSE]

\* A request of the log: which endpoint, for which search result (0: none),
\* whether it failed, and whether the caller got a non-empty value from it.
Request(url, i, resp, got) ==
    [url |-> url, i |-> i, failed |-> Failed(resp), got |-> got]

StartFEC ==
    /\ fpc = "main"
    /\ freqs = <<>>
    /\ lastCall = NoCall
    /\ fcandidates = <<>>
    /\ fidx = 0
    /\ fcomp = <<>>
    /\ fret = "none"
    /\ rawFile = FALSE
    /\ disk \in {[exists |-> FALSE, content |-> <<>>],
                 [exists |-> TRUE, content |-> OldDoc]}
    /\ lastRead = NoRead

\* if fetcher.test_api_connection(): ... else: print("Please verify ...")
TestConnection ==
    /\ fpc = "main"
    /\ \E resp \in Responses({<<>>}) :
        /\ freqs' = Append(freqs, Request("test", 0, resp, test_api_connection(resp)))
        /\ fpc' = IF test_api_connection(resp) THEN "fetch" ELSE "done"
    /\ UNCHANGED <<lastCall, fcandidates, fidx, fcomp, fret, rawFile, disk, lastRead>>
    /\ UNCHANGED notFEC

\* candidates = self.fetch_ca13_candidates(); if not candidates: return False
FetchCandidates ==
    /\ fpc = "fetch"
    /\ \E resp \in SearchResponses, rawOk \in BOOLEAN :
        LET out == fetch_ca13_candidates(resp, rawOk) IN
        /\ freqs' = Append(freqs, Request("search", 0, resp, Truthy(out)))
        /\ lastCall' = [fn |-> "fetch_ca13_candidates", resp |-> resp, out |-> out]
        /\ rawFile' = (rawFile \/ RawWritten(resp, rawOk))
        /\ IF out.raised
           THEN /\ fpc' = "done" /\ fret' = "raised"
                /\ UNCHANGED <<fcandidates, fidx, fcomp>>
           ELSE IF ~Truthy(out)
           THEN /\ fpc' = "done" /\ fret' = "False"
                /\ UNCHANGED <<fcandidates, fidx, fcomp>>
           ELSE /\ fpc' = "loop" /\ fret' = "none"
                /\ fcandidates' = out.val
                /\ fidx' = 1
                /\ fcomp' = <<>>
    /\ UNCHANGED <<disk, lastRead>>
    /\ UNCHANGED notFEC

\* Where the for loop goes after candidate i of n, whose totals call gave
\* `financials`: always on to the next candidate, and to the save after the
\* last one.
AfterCandidateAbort(i, n, financials) ==
    IF ~Truthy(financials) THEN [pc |-> "done", idx |-> i, ret |-> "False"]
    ELSE [pc |-> IF i + 1 > n THEN "save" ELSE "loop", idx |-> i + 1, ret |-> "none"]
AfterCandidateRetry(i, n, financials) ==
    IF ~Truthy(financials) THEN [pc |-> "loop", idx |-> i, ret |-> "none"]
    ELSE [pc |-> IF i + 1 > n THEN "save" ELSE "loop", idx |-> i + 1, ret |-> "none"]
AfterCandidate(i, n, financials) ==
    [pc |-> IF i + 1 > n THEN "save" ELSE "loop", idx |-> i + 1, ret |-> "none"]

\* One iteration of `for candidate in candidates:`.
ProcessCandidate ==
    /\ fpc = "loop"
    /\ fidx <= Len(fcandidates)
    /\ LET candidate == fcandidates[fidx]
           n == Len(fcandidates)
       IN
       IF candidate.candidate_id # 0
       THEN \E resp \in TotalsResponses(candidate.candidate_id) :
              LET financials == fetch_candidate_financials(resp)
                  next == AfterCandidate(fidx, n, financials)
              IN
              /\ freqs' = Append(freqs, Request("totals", fidx, resp, Truthy(financials)))
              /\ lastCall' = [fn |-> "fetch_candidate_financials", resp |-> resp,
                              out |-> financials]
              /\ IF financials.raised
                 THEN /\ fpc' = "done" /\ fret' = "raised"
                      /\ UNCHANGED <<fidx, fcomp>>
                 ELSE /\ fcomp' = IF Truthy(financials)
                                  THEN DictSet(fcomp, candidate.name,
                                               Entry(candidate, financials.val))
                                  ELSE fcomp
                      /\ fpc' = next.pc /\ fidx' = next.idx /\ fret' = next.ret
       ELSE /\ fidx' = fidx + 1
            /\ fpc' = IF fidx + 1 > n THEN "save" ELSE "loop"
            /\ UNCHANGED <<freqs, lastCall, fcomp, fret>>
    /\ UNCHANGED <<fcandidates, rawFile, disk>>
    /\ UNCHANGED <<lastRead, notFEC>>

\* open(output_path, 'w'): the file is created or truncated in place.
TruncateKeepOld(d) == [exists |-> TRUE, content |-> d.content]
Truncate(d) == [exists |-> TRUE, content |-> <<>>]

\* with open(output_path, 'w') as f: -- or the open raises (OSError), which
\* nothing catches.
OpenOutput ==
    /\ fpc = "save"
    /\ \/ /\ disk' = Truncate(disk)
          /\ fpc' = "writing"
          /\ UNCHANGED fret
       \/ /\ fpc' = "done"
          /\ fret' = "raised"
          /\ UNCHANGED disk
    /\ UNCHANGED <<freqs, lastCall, fcandidates, fidx, fcomp, rawFile, lastRead>>
    /\ UNCHANGED notFEC

\* json.dump(comprehensive_data, f, indent=2) writes the document chunk by
\* chunk through the file's buffer; a flush puts a longer prefix on disk.
Flush ==
    /\ fpc = "writing"
    /\ \E k \in (Len(disk.content) + 1)..Len(Doc(fcomp)) :
         disk' = [disk EXCEPT !.content = Prefix(Doc(fcomp), k)]
    /\ UNCHANGED <<fpc, freqs, lastCall, fcandidates, fidx, fcomp, fret, rawFile,
                   lastRead>>
    /\ UNCHANGED notFEC

\* Leaving the with block closes the file: the whole document is on disk;
\* then `return True`.
CloseOutput ==
    /\ fpc = "writing"
    /\ disk' = [disk EXCEPT !.content = Doc(fcomp)]
    /\ fpc' = "done"
    /\ fret' = "True"
    /\ UNCHANGED <<freqs, lastCall, fcandidates, fidx, fcomp, rawFile, lastRead>>
    /\ UNCHANGED notFEC

\* ------------------------------------------------------------------------
\* The readers, each a separate process that may run at any moment.
\* ------------------------------------------------------------------------
\* CA13FinanceAnalyzer.load_data: try: open + json.load -> self.data;
\* except Exception: return False.  A successful load returns None.
load_data(d, during) ==
    IF d.exists /\ Parses(d.content)
    THEN [who |-> "finance", during |-> during, existed |-> d.exists,
          seen |-> d.content, raised |-> FALSE, ret |-> "None", hasData |-> TRUE]
    ELSE [who |-> "finance", during |-> during, existed |-> d.exists,
          seen |-> d.content, raised |-> FALSE, ret |-> "False", hasData |-> FALSE]

\* TopCandidatesAnalyzer.__init__: open + json.load with no try.
TopCandidatesAnalyzer_init(d, during) ==
    IF d.exists /\ Parses(d.content)
    THEN [who |-> "top", during |-> during, existed |-> d.exists,
          seen |-> d.content, raised |-> FALSE, ret |-> "None", hasData |-> TRUE]
    ELSE [who |-> "top", during |-> during, existed |-> d.exists,
          seen |-> d.content, raised |-> TRUE, ret |-> "none", hasData |-> FALSE]

ReadFinance ==
    /\ lastRead' = load_data(disk, fpc = "writing")
    /\ UNCHANGED <<fpc, freqs, lastCall, fcandidates, fidx, fcomp, fret, rawFile, disk>>
    /\ UNCHANGED notFEC

ReadTop ==
    /\ lastRead' = TopCandidatesAnalyzer_init(disk, fpc = "writing")
    /\ UNCHANGED <<fpc, freqs, lastCall, fcandidates, fidx, fcomp, fret, rawFile, disk>>
    /\ UNCHANGED notFEC

NextFEC ==
    \/ TestConnection
    \/ FetchCandidates
    \/ ProcessCandidate
    \/ OpenOutput
    \/ Flush
    \/ CloseOutput
    \/ ReadFinance
    \/ ReadTop

ParkedFEC ==
    /\ fpc = "main" /\ freqs = <<>> /\ lastCall = NoCall /\ fcandidates = <<>>
    /\ fidx = 0 /\ fcomp = <<>> /\ fret = "none" /\ rawFile = FALSE
    /\ disk = [exists |-> FALSE, content |-> <<>>] /\ lastRead = NoRead

\* ------------------------------------------------------------------------
\* Claims about the FEC fetcher (checked under SpecFEC)
\* ------------------------------------------------------------------------
TotalsRequests == {k \in 1..Len(freqs) : freqs[k].url = "totals"}

\* C1: fetch_ca13_candidates and fetch_candidate_financials never raise to
\* their caller: whatever the HTTP request produced (status 200, another
\* status, a network exception, a body that is not JSON or lacks 'results'),
\* the call returned None, or -- only for a status 200 whose body parsed and
\* held 'results' -- the response's 'results' value.
C1_FetchReturnsResultsOrNone ==
    lastCall.fn # "none" =>
        /\ ~lastCall.out.raised
        /\ \/ lastCall.out.none
           \/ /\ lastCall.resp.kind = "resp"
              /\ lastCall.resp.status = 200
              /\ lastCall.resp.json
              /\ lastCall.resp.haskey
              /\ lastCall.out.val = lastCall.resp.results

\* C1 witness: a totals request ended in a network exception and the call
\* returned None.
C1_Witness ==
    /\ lastCall.fn = "fetch_candidate_financials"
    /\ lastCall.resp.kind = "exc"
    /\ lastCall.out.none
    /\ ~lastCall.out.raised

\* C2: no retry: in one run each request is issued at most once -- one
\* connection test, one candidate search, at most one totals request per
\* search result, and only for results that have a candidate_id -- so a
\* request that failed is never issued again.
C2_NoRetry ==
    /\ \A j, k \in 1..Len(freqs) :
          (freqs[j].url = freqs[k].url /\ freqs[j].i = freqs[k].i) => j = k
    /\ \A k \in TotalsRequests :
          /\ freqs[k].i \in 1..Len(fcandidates)
          /\ fcandidates[freqs[k].i].candidate_id # 0
    /\ \A k \in 1..Len(freqs) : freqs[k].url # "totals" => freqs[k].i = 0

\* C2 witness: the run is over, its first totals request failed, and the log
\* holds that request once, followed by the next candidate's.
C2_Witness ==
    /\ fpc = "done"
    /\ Len(freqs) = 4
    /\ freqs[3].url = "totals" /\ freqs[3].failed
    /\ freqs[4].url = "totals" /\ freqs[4].i = 2

\* C3 as stated: once the totals request of a candidate has failed, the
\* operation is aborted: no further candidate is processed, nothing is saved
\* and True is not returned.
C3_AbortsOnTotalsFailure ==
    \A k \in TotalsRequests :
        ~freqs[k].got =>
            /\ k = Len(freqs)
            /\ fpc = "done"
            /\ fret # "True"

DictNames(d) == {d[i].name : i \in 1..Len(d)}

\* C3 as amended: a failed totals request only leaves that candidate out.
\* The loop goes on: once it is over every search result with a candidate_id
\* has had its totals request, the map holds the names of exactly those whose
\* totals came back non-empty, True is returned with that (partial) map saved,
\* and False is never the result of a totals failure.
C3_SkipsFailedCandidate ==
    /\ (fpc \in {"save", "writing"} \/ fret = "True") =>
          /\ {freqs[k].i : k \in TotalsRequests}
               = {i \in 1..Len(fcandidates) : fcandidates[i].candidate_id # 0}
          /\ DictNames(fcomp)
               = {fcandidates[freqs[k].i].name : k \in {j \in TotalsRequests : freqs[j].got}}
    /\ fret = "True" => disk.exists /\ disk.content = Doc(fcomp)
    /\ fret = "False" => TotalsRequests = {}

\* C3 witness: True was returned although the first candidate's totals
\* request failed; the second candidate is in the saved map.
C3_Witness ==
    /\ fret = "True"
    /\ Len(freqs) = 4
    /\ freqs[3].url = "totals" /\ ~freqs[3].got
    /\ freqs[4].url = "totals" /\ freqs[4].got
    /\ Len(fcomp) = 1
    /\ disk.content = Doc(fcomp)

\* C4: the hand-off through ca13_comprehensive_data.json is unprotected.
\* While the writer is between open and close no lock keeps a reader out; what
\* a reader sees then is the file as rewritten in place so far -- a prefix of
\* the new document, empty right after the open -- and an incomplete prefix
\* reaches the reader only as an ordinary load failure (load_data returns
\* False, TopCandidatesAnalyzer.__init__ raises): nothing tells it that a
\* writer was at work.
C4_UnprotectedHandoff ==
    /\ fpc = "writing" => (ENABLED ReadFinance) /\ (ENABLED ReadTop)
    /\ lastRead.during =>
          /\ lastRead.existed
          /\ Len(lastRead.seen) <= Len(Doc(fcomp))
          /\ lastRead.seen = Prefix(Doc(fcomp), Len(lastRead.seen))
          /\ ~Parses(lastRead.seen) =>
                /\ ~lastRead.hasData
                /\ lastRead.who = "finance" => ~lastRead.raised /\ lastRead.ret = "False"
                /\ lastRead.who = "top" => lastRead.raised

\* C4 witness: load_data ran between the writer's open and close and saw a
\* document that had begun but was not complete.
C4_Witness ==
    /\ lastRead.who = "finance"
    /\ lastRead.during
    /\ Len(lastRead.seen) > 0
    /\ ~Parses(lastRead.seen)
    /\ lastRead.ret = "False"

\* C18: when fetch_and_save_all_data has returned False no totals request has
\* been issued and ca13_comprehensive_data.json is as it was before the run
\* (still absent, or still the earlier document); when it has returned True
\* the file exists and holds, in order, district 'CA-13', a fetch_date, one
\* entry per key of the candidates map and the closing of the document --
\* also when the map is empty.
C18_FalseLeavesFileTrueWritesIt ==
    /\ fret = "False" =>
          /\ TotalsRequests = {}
          /\ fcomp = <<>>
          /\ disk \in {[exists |-> FALSE, content |-> <<>>],
                       [exists |-> TRUE, content |-> OldDoc]}
    /\ fret = "True" =>
          /\ disk.exists
          /\ Len(disk.content) = Len(fcomp) + 3
          /\ disk.content[1] = Chunk("district:CA-13")
          /\ disk.content[2] = Chunk("fetch_date")
          /\ \A i \in 1..Len(fcomp) : disk.content[i + 2] = CandidateChunk(fcomp[i])
          /\ disk.content[Len(fcomp) + 3] = Chunk("end")

\* C18 witness: the search gave two candidates, both totals requests came back
\* empty, and True was returned with a file whose candidates map is empty.
C18_Witness ==
    /\ fret = "True"
    /\ Len(fcandidates) = 2
    /\ Cardinality(TotalsRequests) = 2
    /\ \A k \in TotalsRequests : ~freqs[k].got
    /\ fcomp = <<>>
    /\ disk.content = <<Chunk("district:CA-13"), Chunk("fetch_date"), Chunk("end")>>

\* Search results that qualify for the saved map: they have a candidate_id and
\* their totals request returned a non-empty result.
Qualifying == {freqs[k].i : k \in {j \in TotalsRequests : freqs[j].got}}

\* C19: after True has been returned the saved candidates map has exactly one
\* entry for each qualifying search result, and that entry is the result's
\* own: none is lost or overwritten by another.
C19_OneEntryPerQualifyingResult ==
    fret = "True" =>
        /\ Len(fcomp) = Cardinality(Qualifying)
        /\ \A i \in Qualifying :
              \E e \in 1..Len(fcomp) : fcomp[e].candidate_info = fcandidates[i]

\* ========================================================================
\* ca13-initial-setup.py: CA13Analyzer
\* ========================================================================
\* Distinct tables a file can hold.
NumTables == 2
Tables == 1..NumTables
None == 0

\* What gpd.read_file / pd.read_csv does with the path given: raises, or
\* returns the table the file holds.
Reads == {[ok |-> FALSE, table |-> None]} \cup [ok : {TRUE}, table : Tables]

Self == [district_boundary |-> district_boundary, precinct_data |-> precinct_data,
         census_data |-> census_data, election_data |-> election_data]

\* try: self.<attr> = read(file_path); return True
\* except Exception: return False
\* The read raises before the assignment happens, so a failure leaves the
\* attribute alone.
LoadClobbers(old, read) ==
    [attr |-> IF read.ok THEN read.table ELSE None, ret |-> IF read.ok THEN "True" ELSE "False",
     raised |-> FALSE]
Load(old, read) ==
    [attr |-> IF read.ok THEN read.table ELSE old, ret |-> IF read.ok THEN "True" ELSE "False",
     raised |-> FALSE]

Called(op, read, res) ==
    [op |-> op, ok |-> read.ok, table |-> read.table, ret |-> res.ret,
     raised |-> res.raised, pre |-> Self]

Noted(h, read) ==
    IF read.ok THEN "loaded" ELSE IF h = "never" THEN "never" ELSE "failed_after"

load_district_boundary ==
    \E read \in Reads :
        LET res == Load(district_boundary, read) IN
        /\ district_boundary' = res.attr
        /\ aLast' = Called("load_district_boundary", read, res)
        /\ aLoads' = [aLoads EXCEPT !.district_boundary = Noted(@, read)]
        /\ UNCHANGED <<precinct_data, census_data, election_data, notAN>>

load_census_data ==
    \E read \in Reads :
        LET res == Load(census_data, read) IN
        /\ census_data' = res.attr
        /\ aLast' = Called("load_census_data", read, res)
        /\ aLoads' = [aLoads EXCEPT !.census_data = Noted(@, read)]
        /\ UNCHANGED <<district_boundary, precinct_data, election_data, notAN>>

load_election_data ==
    \E read \in Reads :
        LET res == Load(election_data, read) IN
        /\ election_data' = res.attr
        /\ aLast' = Called("load_election_data", read, res)
        /\ aLoads' = [aLoads EXCEPT !.election_data = Noted(@, read)]
        /\ UNCHANGED <<district_boundary, precinct_data, census_data, notAN>>

NoReadDone == [ok |-> FALSE, table |-> None]

\* if self.census_data is None: return None
\* return self.census_data.describe()
analyze_demographics_wrong_attr(self) ==
    IF self.election_data = None THEN [ret |-> "None", raised |-> FALSE]
    ELSE [ret |-> "summary", raised |-> FALSE]
analyze_demographics(self) ==
    IF self.census_data = None THEN [ret |-> "None", raised |-> FALSE]
    ELSE [ret |-> "summary", raised |-> FALSE]

\* if self.election_data is None: return None
\* return self.election_data.describe()
analyze_election_results(self) ==
    IF self.election_data = None THEN [ret |-> "None", raised |-> FALSE]
    ELSE [ret |-> "summary", raised |-> FALSE]

\* if self.district_boundary is None: return   -- else the map is drawn
create_district_map(self) ==
    IF self.district_boundary = None THEN [ret |-> "None", raised |-> FALSE]
    ELSE [ret |-> "drawn", raised |-> FALSE]

AnalyzeDemographics ==
    /\ aLast' = Called("analyze_demographics", NoReadDone, analyze_demographics(Self))
    /\ UNCHANGED <<district_boundary, precinct_data, census_data, election_data,
                   aLoads, notAN>>

AnalyzeElectionResults ==
    /\ aLast' = Called("analyze_election_results", NoReadDone,
                       analyze_election_results(Self))
    /\ UNCHANGED <<district_boundary, precinct_data, census_data, election_data,
                   aLoads, notAN>>

CreateDistrictMap ==
    /\ aLast' = Called("create_district_map", NoReadDone, create_district_map(Self))
    /\ UNCHANGED <<district_boundary, precinct_data, census_data, election_data,
                   aLoads, notAN>>

\* CA13Analyzer.__init__: the four data attributes are None.
StartAN ==
    /\ district_boundary = None
    /\ precinct_data = None
    /\ census_data = None
    /\ election_data = None
    /\ aLast = [op |-> "__init__", ok |-> FALSE, table |-> None, ret |-> "none",
                raised |-> FALSE,
                pre |-> [district_boundary |-> None, precinct_data |-> None,
                         census_data |-> None, election_data |-> None]]
    /\ aLoads = [district_boundary |-> "never", census_data |-> "never",
                 election_data |-> "never"]

ParkedAN == StartAN

NextAN ==
    \/ load_district_boundary
    \/ load_census_data
    \/ load_election_data
    \/ AnalyzeDemographics
    \/ AnalyzeElectionResults
    \/ CreateDistrictMap

\* ------------------------------------------------------------------------
\* Claims about CA13Analyzer (checked under SpecAnalyzer)
\* ------------------------------------------------------------------------
LoadOps == {"load_district_boundary", "load_census_data", "load_election_data"}
AttrOf(op) == IF op = "load_district_boundary" THEN "district_boundary"
              ELSE IF op = "load_census_data" THEN "census_data"
              ELSE "election_data"
DataAttrs == {"district_boundary", "precinct_data", "census_data", "election_data"}

\* C6: after load_district_boundary, load_census_data or load_election_data:
\* a successful read stored the table in the matching attribute and returned
\* True; a failed read returned False, raised nothing and left that attribute
\* as it was; in both cases the other data attributes are as they were.
C6_LoadStoresOrKeeps ==
    aLast.op \in LoadOps =>
        /\ ~aLast.raised
        /\ aLast.ok => aLast.ret = "True" /\ Self[AttrOf(aLast.op)] = aLast.table
        /\ ~aLast.ok => aLast.ret = "False"
                         /\ Self[AttrOf(aLast.op)] = aLast.pre[AttrOf(aLast.op)]
        /\ \A a \in DataAttrs \ {AttrOf(aLast.op)} : Self[a] = aLast.pre[a]

\* C6 witness: load_census_data failed and the census table loaded earlier
\* is still there, next to a loaded boundary.
C6_Witness ==
    /\ aLast.op = "load_census_data"
    /\ ~aLast.ok
    /\ aLast.ret = "False"
    /\ census_data # None
    /\ district_boundary # None

\* C7: analyze_demographics (analyze_election_results) returns a summary if
\* and only if some earlier load_census_data (load_election_data) succeeded,
\* and None otherwise; create_district_map draws only if a boundary was
\* successfully loaded.
C7_AnalyzeIffLoaded ==
    /\ aLast.op = "analyze_demographics" =>
          /\ aLast.ret \in {"summary", "None"}
          /\ aLast.ret = "summary" <=> aLoads.census_data # "never"
    /\ aLast.op = "analyze_election_results" =>
          /\ aLast.ret \in {"summary", "None"}
          /\ aLast.ret = "summary" <=> aLoads.election_data # "never"
    /\ aLast.op = "create_district_map" =>
          (aLast.ret = "drawn" => aLoads.district_boundary # "never")

\* C7 witness: analyze_demographics returned a summary although the latest
\* load_census_data had failed, an earlier one having succeeded, while no
\* election data was ever loaded.
C7_Witness ==
    /\ aLast.op = "analyze_demographics"
    /\ aLast.ret = "summary"
    /\ aLoads.census_data = "failed_after"
    /\ aLoads.election_data = "never"

\* ========================================================================
\* Constructors: the directories each __init__ creates
\* ========================================================================
Parent(path) == SubSeq(path, 1, Len(path) - 1)

\* The working directory itself (the empty path) always exists.
IsDir(fs, path) == path = <<>> \/ path \in fs

Ancestors(path) == {SubSeq(path, 1, k) : k \in 1..Len(path)}

\* pathlib.Path.mkdir(parents=..., exist_ok=True): os.mkdir succeeds when the
\* parent exists; FileExistsError is swallowed (exist_ok, and the path is a
\* directory); FileNotFoundError is raised unless parents=True, which creates
\* the missing ancestors first.
Mkdir(fs, path, parents) ==
    IF IsDir(fs, path) THEN [fs |-> fs, raised |-> FALSE]
    ELSE IF IsDir(fs, Parent(path)) THEN [fs |-> fs \cup {path}, raised |-> FALSE]
    ELSE IF parents THEN [fs |-> fs \cup Ancestors(path), raised |-> FALSE]
    ELSE [fs |-> fs, raised |-> TRUE]

\* Each constructor's mkdir calls, in order: the path and the parents flag.
CountyDataProcessor_init ==
    <<[path |-> <<"data", "election_data", "county_data">>, parents |-> FALSE]>>
CA13DemographicAnalyzer_init ==
    <<[path |-> <<"data", "analysis">>, parents |-> FALSE]>>
ElectionDataCollector_init ==
    <<[path |-> <<"data", "election_data">>, parents |-> FALSE]>>
CA13PotentialAnalyzer_init ==
    <<[path |-> <<"data", "visualizations">>, parents |-> FALSE]>>
FECDataFetcher_init ==
    <<[path |-> <<"data", "campaign_finance">>, parents |-> TRUE]>>
CA13SpatialAnalyzer_init ==
    <<[path |-> <<"data", "visualizations", "spatial">>, parents |-> TRUE]>>
DetailedSpatialAnalyzer_init ==
    <<[path |-> <<"data", "analysis", "spatial">>, parents |-> TRUE]>>
\* CA13Analyzer.ensure_directories
CA13Analyzer_init ==
    <<[path |-> <<"data">>, parents |-> FALSE],
      [path |-> <<"notebooks">>, parents |-> FALSE],
      [path |-> <<"src">>, parents |-> FALSE]>>

\* Running the mkdir calls in order; the first that raises ends __init__.
RECURSIVE RunMkdirs(_, _)
RunMkdirs(fs, calls) ==
    IF calls = <<>> THEN [fs |-> fs, raised |-> FALSE]
    ELSE LET r == Mkdir(fs, Head(calls).path, Head(calls).parents)
         IN  IF r.raised THEN r ELSE RunMkdirs(r.fs, Tail(calls))

\* The outcome of one constructor: the directories afterwards, and a record
\* of the run (did it start in a fresh directory, did it raise, do the
\* directories it needs exist now).
Construct(cls, calls) ==
    LET r == RunMkdirs(fsDirs, calls) IN
    [fs |-> r.fs,
     last |-> [cls |-> cls, fresh |-> fsDirs = {}, raised |-> r.raised,
               made |-> {calls[k].path : k \in 1..Len(calls)} \subseteq r.fs]]

NewCountyDataProcessor ==
    /\ fsDirs' = Construct("CountyDataProcessor", CountyDataProcessor_init).fs
    /\ cLast' = Construct("CountyDataProcessor", CountyDataProcessor_init).last
    /\ UNCHANGED notCtor

NewCA13DemographicAnalyzer ==
    /\ fsDirs' = Construct("CA13DemographicAnalyzer", CA13DemographicAnalyzer_init).fs
    /\ cLast' = Construct("CA13DemographicAnalyzer", CA13DemographicAnalyzer_init).last
    /\ UNCHANGED notCtor

NewElectionDataCollector ==
    /\ fsDirs' = Construct("ElectionDataCollector", ElectionDataCollector_init).fs
    /\ cLast' = Construct("ElectionDataCollector", ElectionDataCollector_init).last
    /\ UNCHANGED notCtor

NewCA13PotentialAnalyzer ==
    /\ fsDirs' = Construct("CA13PotentialAnalyzer", CA13PotentialAnalyzer_init).fs
    /\ cLast' = Construct("CA13PotentialAnalyzer", CA13PotentialAnalyzer_init).last
    /\ UNCHANGED notCtor

NewFECDataFetcher ==
    /\ fsDirs' = Construct("FECDataFetcher", FECDataFetcher_init).fs
    /\ cLast' = Construct("FECDataFetcher", FECDataFetcher_init).last
    /\ UNCHANGED notCtor

NewCA13SpatialAnalyzer ==
    /\ fsDirs' = Construct("CA13SpatialAnalyzer", CA13SpatialAnalyzer_init).fs
    /\ cLast' = Construct("CA13SpatialAnalyzer", CA13SpatialAnalyzer_init).last
    /\ UNCHANGED notCtor

NewDetailedSpatialAnalyzer ==
    /\ fsDirs' = Construct("DetailedSpatialAnalyzer", DetailedSpatialAnalyzer_init).fs
    /\ cLast' = Construct("DetailedSpatialAnalyzer", DetailedSpatialAnalyzer_init).last
    /\ UNCHANGED notCtor

NewCA13Analyzer ==
    /\ fsDirs' = Construct("CA13Analyzer", CA13Analyzer_init).fs
    /\ cLast' = Construct("CA13Analyzer", CA13Analyzer_init).last
    /\ UNCHANGED notCtor

\* A fresh working directory: nothing has run in it.
StartCtor ==
    /\ fsDirs = {}
    /\ cLast = [cls |-> "none", fresh |-> FALSE, raised |-> FALSE, made |-> FALSE]

ParkedCtor == StartCtor

NextCtor ==
    \/ NewCountyDataProcessor
    \/ NewCA13DemographicAnalyzer
    \/ NewElectionDataCollector
    \/ NewCA13PotentialAnalyzer
    \/ NewFECDataFetcher
    \/ NewCA13SpatialAnalyzer
    \/ NewDetailedSpatialAnalyzer
    \/ NewCA13Analyzer

\* ------------------------------------------------------------------------
\* Claims about start-up (checked under SpecCtor)
\* ------------------------------------------------------------------------
\* C5: every script is self-contained at start-up: a constructor run in a
\* fresh working directory, where no other script has run yet, succeeds and
\* has created the output directory it needs with its missing parents.
C5_ConstructsInFreshDirectory ==
    (cLast.cls # "none" /\ cLast.fresh) => (~cLast.raised /\ cLast.made)

\* ========================================================================
\* district_processor.py: CA13Processor
\* ========================================================================
\* Most rows a shapefile holds in the model.
MaxRows == 2

\* district_cols, in the order the code tries them.
district_cols == <<"DISTRICT", "District", "CD", "CD_NUM", "CONG_DIST">>
OtherColumns == {"NAME"}
ColumnNames == {district_cols[k] : k \in 1..Len(district_cols)} \cup OtherColumns

\* A cell of the district column: an integer, a float with an integral
\* value, or text.
Cells ==
    [kind : {"int"}, n : {12, 13}, chars : {<<>>}]
    \cup [kind : {"float"}, n : {13}, chars : {<<>>}]
    \cup [kind : {"str"}, n : {0},
          chars : {<<"1", "3">>, <<" ", "1", "3", " ">>, <<"0", "1", "3">>, <<"1", "3", "0">>}]

DigitChar(d) == <<"0", "1", "2", "3", "4", "5", "6", "7", "8", "9">>[d + 1]

RECURSIVE Digits(_)
Digits(n) == IF n < 10 THEN <<DigitChar(n)>>
             ELSE Append(Digits(n \div 10), DigitChar(n % 10))

\* .astype(str): str() of the cell.
AsStr(cell) ==
    IF cell.kind = "int" THEN Digits(cell.n)
    ELSE IF cell.kind = "float" THEN Digits(cell.n) \o <<".", "0">>
    ELSE cell.chars

RECURSIVE LStrip(_)
LStrip(cs) == IF cs # <<>> /\ Head(cs) = " " THEN LStrip(Tail(cs)) ELSE cs

RECURSIVE RStrip(_)
RStrip(cs) == IF cs # <<>> /\ cs[Len(cs)] = " " THEN RStrip(SubSeq(cs, 1, Len(cs) - 1))
              ELSE cs

\* .str.strip()
Strip(cs) == RStrip(LStrip(cs))

\* self.district_data[district_col].astype(str).str.strip() == '13'
IsDistrict13(cell) == Strip(AsStr(cell)) = <<"1", "3">>

Matching(values) == {k \in 1..Len(values) : IsDistrict13(values[k])}

\* The same search without the break: every later name that is present
\* overwrites the earlier one, so the last of the five wins.
RECURSIVE LastPresent(_, _)
LastPresent(cols, columns) ==
    IF cols = <<>> THEN ""
    ELSE IF cols[Len(cols)] \in columns THEN cols[Len(cols)]
    ELSE LastPresent(SubSeq(cols, 1, Len(cols) - 1), columns)

\* for col in district_cols: if col in columns: district_col = col; break
RECURSIVE FirstPresent(_, _)
FirstPresent(cols, columns) ==
    IF cols = <<>> THEN ""
    ELSE IF Head(cols) \in columns THEN Head(cols)
    ELSE FirstPresent(Tail(cols), columns)

\* create_district_maps: everything it does is inside its own try/except, so
\* a failure while drawing is printed and not passed on.
create_district_maps_raising(drawOk) == [saved |-> drawOk, raised |-> ~drawOk]
create_district_maps(drawOk) == [saved |-> drawOk, raised |-> FALSE]

\* `except Exception as e: print(...); return False`
DReturnFalse(why) ==
    /\ dret' = "False"
    /\ dwhy' = why
    /\ dpc' = "report"

\* shapefile_path.exists() and gpd.read_file(shapefile_path)
LoadShapefile ==
    /\ dpc = "main"
    /\ \/ /\ DReturnFalse("missing")                 \* the file is not there
          /\ UNCHANGED dcolumns
       \/ /\ DReturnFalse("raised")                  \* read_file raised
          /\ UNCHANGED dcolumns
       \/ \E columns \in SUBSET ColumnNames :
             /\ dcolumns' = columns \cup {"geometry"}
             /\ dpc' = "find"
             /\ UNCHANGED <<dret, dwhy>>
    /\ UNCHANGED <<dcol, dprompted, dvalues, dmatched, dfile, dmaps, danalyzed, notDP>>

\* The search for the district column; with none of the five names present
\* the code goes on to ask.
FindColumn ==
    /\ dpc = "find"
    /\ dcol' = FirstPresent(district_cols, dcolumns)
    /\ dpc' = IF dcol' = "" THEN "prompt" ELSE "extract"
    /\ UNCHANGED <<dcolumns, dprompted, dvalues, dmatched, dfile, dmaps, dret, dwhy,
                   danalyzed, notDP>>

\* col_idx = int(input("Enter column number: ")): the answer names a column,
\* or is no number or no index of the column list (ValueError, IndexError).
EnterColumn ==
    /\ dpc = "prompt"
    /\ dprompted' = TRUE
    /\ \/ \E answer \in dcolumns :
             /\ dcol' = answer
             /\ dpc' = "extract"
             /\ UNCHANGED <<dret, dwhy>>
       \/ /\ DReturnFalse("raised")
          /\ UNCHANGED dcol
    /\ UNCHANGED <<dcolumns, dvalues, dmatched, dfile, dmaps, danalyzed, notDP>>

\* self.ca13_data = rows whose district value is '13'; none: return False.
ExtractDistrict ==
    /\ dpc = "extract"
    /\ \E values \in SeqsUpTo(Cells, MaxRows) :
         /\ dvalues' = values
         /\ dmatched' = Cardinality(Matching(values))
         /\ IF dmatched' = 0
            THEN DReturnFalse("no_match")
            ELSE dpc' = "save" /\ UNCHANGED <<dret, dwhy>>
    /\ UNCHANGED <<dcolumns, dcol, dprompted, dfile, dmaps, danalyzed, notDP>>

\* output_dir.mkdir(exist_ok=True); self.ca13_data.to_file(output_path).
\* to_file writes the file, or raises having created nothing or a part of it.
SaveBoundary ==
    /\ dpc = "save"
    /\ \/ /\ dfile' = "written"
          /\ dpc' = "maps"
          /\ UNCHANGED <<dret, dwhy>>
       \/ /\ dfile' \in {"none", "partial"}
          /\ DReturnFalse("raised")
    /\ UNCHANGED <<dcolumns, dcol, dprompted, dvalues, dmatched, dmaps, danalyzed, notDP>>

\* self.create_district_maps(); return True
DrawMaps ==
    /\ dpc = "maps"
    /\ \E drawOk \in BOOLEAN :
         LET m == create_district_maps(drawOk) IN
         /\ dmaps' = IF m.saved THEN "saved" ELSE "failed"
         /\ IF m.raised
            THEN DReturnFalse("raised")
            ELSE dret' = "True" /\ dpc' = "report" /\ UNCHANGED dwhy
    /\ UNCHANGED <<dcolumns, dcol, dprompted, dvalues, dmatched, dfile, danalyzed, notDP>>

\* __main__: if processor.process_district_data(): analyze_district_data()
\* else: print("Processing failed ...")
Report ==
    /\ dpc = "report"
    /\ danalyzed' = (dret = "True")
    /\ dpc' = "end"
    /\ UNCHANGED <<dcolumns, dcol, dprompted, dvalues, dmatched, dfile, dmaps, dret, dwhy,
                   notDP>>

StartDP ==
    /\ dpc = "main"
    /\ dcolumns = {}
    /\ dcol = ""
    /\ dprompted = FALSE
    /\ dvalues = <<>>
    /\ dmatched = -1
    /\ dfile = "none"
    /\ dmaps = "none"
    /\ dret = "none"
    /\ dwhy = "none"
    /\ danalyzed = FALSE

ParkedDP == StartDP

NextDP ==
    \/ LoadShapefile
    \/ FindColumn
    \/ EnterColumn
    \/ ExtractDistrict
    \/ SaveBoundary
    \/ DrawMaps
    \/ Report

PresentDistrictCols == {k \in 1..Len(district_cols) : district_cols[k] \in dcolumns}

\* C21: the district column is the first of DISTRICT, District, CD, CD_NUM,
\* CONG_DIST, in that order, that is a column of the shapefile, and then
\* input() is not called; input() is called only when none of the five is a
\* column, and then, once the search is over, it always is: the run does not
\* go on to the extraction without a column.
C21_FirstOfFiveElsePrompt ==
    /\ dprompted => PresentDistrictCols = {}
    /\ dpc = "prompt" => PresentDistrictCols = {} /\ dcol = ""
    /\ (dcol # "" /\ ~dprompted) =>
          \E k \in PresentDistrictCols :
              /\ dcol = district_cols[k]
              /\ \A j \in PresentDistrictCols : k <= j
    /\ (dcol # "" /\ dprompted) => dcol \in dcolumns
    /\ dpc \in {"extract", "save", "maps"} => dcol # ""
    /\ dmatched >= 0 =>
          /\ dcol # ""
          /\ PresentDistrictCols = {} <=> dprompted

\* C21 witness: the shapefile has CD and CONG_DIST (and NAME) but neither
\* DISTRICT nor District; CD was taken without a prompt and the extraction
\* has been run on it.
C21_Witness ==
    /\ dcolumns = {"CD", "CONG_DIST", "NAME", "geometry"}
    /\ dcol = "CD"
    /\ ~dprompted
    /\ dmatched >= 0

\* ========================================================================
\* county-data-processor.py: CountyDataProcessor
\* ========================================================================
\* Most rows a county data file holds in the model.
MaxCountyRows == 1

\* self.county_template.keys(), in insertion order.
county_template == <<"Fresno", "Madera", "Merced", "San Joaquin", "Stanislaus">>

\* The counts a precinct row can hold.
PrecinctCounts ==
    {[registered_voters |-> 10, total_votes |-> 4, democratic_votes |-> 3,
      republican_votes |-> 1],
     [registered_voters |-> 10, total_votes |-> 8, democratic_votes |-> 2,
      republican_votes |-> 6],
     [registered_voters |-> 0, total_votes |-> 0, democratic_votes |-> 0,
      republican_votes |-> 0]}

PrecinctRows == [in_ca13 : {"Yes", "No"}, counts : PrecinctCounts]

\* A county's <county>_data.csv: absent; present but not processable (a
\* column is missing, the file is not a CSV, a count column holds text);
\* or a table whose count columns pandas reads as int64 or as float64.
CountyFiles ==
    {[state |-> "absent", dtype |-> "", rows |-> <<>>],
     [state |-> "bad", dtype |-> "", rows |-> <<>>]}
    \cup [state : {"ok"}, dtype : {"int64", "float64"},
          rows : SeqsUpTo(PrecinctRows, MaxCountyRows)]

\* df[df['in_ca13'] == 'Yes']
ca13_precincts_all(rows) == rows
ca13_precincts(rows) == SelectSeq(rows, LAMBDA r : r.in_ca13 = "Yes")

\* Series.sum() of one column.
RECURSIVE ColumnSum(_, _)
ColumnSum(rows, col) ==
    IF rows = <<>> THEN 0 ELSE Head(rows).counts[col] + ColumnSum(Tail(rows), col)

\* process_county_data: None for a file that is absent or raises; otherwise
\* the sums over the CA-13 precincts, as numpy scalars of the columns' dtype.
process_county_data(file) ==
    IF file.state # "ok" THEN [none |-> TRUE, dtype |-> "", total_votes |-> 0,
                               democratic_votes |-> 0, republican_votes |-> 0,
                               registered_voters |-> 0]
    ELSE LET sel == ca13_precincts(file.rows) IN
         [none |-> FALSE, dtype |-> file.dtype,
          total_votes |-> ColumnSum(sel, "total_votes"),
          democratic_votes |-> ColumnSum(sel, "democratic_votes"),
          republican_votes |-> ColumnSum(sel, "republican_votes"),
          registered_voters |-> ColumnSum(sel, "registered_voters")]

\* (a / b) * 100, kept exact as the fraction num/den.
Percent(a, b) == [num |-> a * 100, den |-> b]
NoPercent == [num |-> 0, den |-> 0]

\* The type of x + y: a Python int 0 takes the numpy type of what is added;
\* int64 + float64 is float64.
AddType(t, u) ==
    IF t = "int" THEN u
    ELSE IF t = "float64" \/ u = "float64" THEN "float64"
    ELSE "int64"

\* The body of `if county_data:` -- the four += and the county's breakdown
\* entry, which is made only for a county with votes.
AddCounty(sum, county, cd) ==
    LET added == [sum EXCEPT !.total_registered = @ + cd.registered_voters,
                             !.total_votes = @ + cd.total_votes,
                             !.democratic_votes = @ + cd.democratic_votes,
                             !.republican_votes = @ + cd.republican_votes,
                             !.dtype = AddType(@, cd.dtype)]
    IN  IF cd.total_votes > 0
        THEN [added EXCEPT !.county_breakdown =
                [c \in DOMAIN sum.county_breakdown \cup {county} |->
                    IF c = county
                    THEN [total_votes |-> cd.total_votes, dtype |-> cd.dtype,
                          democratic_percentage |->
                              Percent(cd.democratic_votes, cd.total_votes),
                          republican_percentage |->
                              Percent(cd.republican_votes, cd.total_votes)]
                    ELSE sum.county_breakdown[c]]]
        ELSE added

\* The district-wide percentages, set only when total_votes > 0.
WithPercentages(sum) ==
    IF sum.total_votes > 0
    THEN [sum EXCEPT !.has_percentages = TRUE,
                     !.democratic_percentage = Percent(sum.democratic_votes, sum.total_votes),
                     !.republican_percentage = Percent(sum.republican_votes, sum.total_votes),
                     !.turnout = Percent(sum.total_votes, sum.total_registered)]
    ELSE sum

EmptyBreakdown == [c \in {} |-> 0]

\* district_summary as first built.
district_summary0 ==
    [total_registered |-> 0, total_votes |-> 0, democratic_votes |-> 0,
     republican_votes |-> 0, dtype |-> "int", county_breakdown |-> EmptyBreakdown,
     has_percentages |-> FALSE, democratic_percentage |-> NoPercent,
     republican_percentage |-> NoPercent, turnout |-> NoPercent]

\* The expected totals, kept beside the program from the files as read: the
\* sums of the rows flagged 'Yes', per district and per county.
RECURSIVE YesSum(_, _, _)
YesSum(rows, col, k) ==
    IF k = 0 THEN 0
    ELSE YesSum(rows, col, k - 1)
         + (IF rows[k].in_ca13 = "Yes" THEN rows[k].counts[col] ELSE 0)

Expected0 ==
    [total_registered |-> 0, total_votes |-> 0, democratic_votes |-> 0,
     republican_votes |-> 0, by_county |-> EmptyBreakdown]

Expect(e, county, file) ==
    IF file.state # "ok" THEN e
    ELSE LET n == Len(file.rows) IN
         [total_registered |-> e.total_registered + YesSum(file.rows, "registered_voters", n),
          total_votes |-> e.total_votes + YesSum(file.rows, "total_votes", n),
          democratic_votes |-> e.democratic_votes + YesSum(file.rows, "democratic_votes", n),
          republican_votes |-> e.republican_votes + YesSum(file.rows, "republican_votes", n),
          by_county |->
              [c \in DOMAIN e.by_county \cup {county} |->
                  IF c = county
                  THEN [total_votes |-> YesSum(file.rows, "total_votes", n),
                        democratic_votes |-> YesSum(file.rows, "democratic_votes", n),
                        republican_votes |-> YesSum(file.rows, "republican_votes", n)]
                  ELSE e.by_county[c]]]

\* One iteration of `for county in self.county_template.keys():`.
ProcessCounty ==
    /\ kpc = "loop"
    /\ kidx <= Len(county_template)
    /\ \E file \in CountyFiles :
         LET county == county_template[kidx]
             county_data == process_county_data(file)
         IN
         /\ ksum' = IF county_data.none THEN ksum ELSE AddCounty(ksum, county, county_data)
         /\ kexpect' = Expect(kexpect, county, file)
    /\ kidx' = kidx + 1
    /\ kpc' = IF kidx' > Len(county_template) THEN "percent" ELSE "loop"
    /\ UNCHANGED <<kjson, kreport, kret, notCD>>

\* `if total_votes > 0:` the three district-wide percentages.
DistrictPercentages ==
    /\ kpc = "percent"
    /\ ksum' = WithPercentages(ksum)
    /\ kpc' = "save"
    /\ UNCHANGED <<kidx, kexpect, kjson, kreport, kret, notCD>>

\* json.dump cannot encode a numpy int64 (TypeError); a Python int and a
\* numpy float64 (a float) it can.
Serializable(sum) ==
    /\ sum.dtype # "int64"
    /\ \A c \in DOMAIN sum.county_breakdown : sum.county_breakdown[c].dtype # "int64"

\* save_district_summary, then `return district_summary`.  The JSON file is
\* opened and dumped first; the report then formats summary['turnout'] and
\* the two percentages, which exist only when total_votes > 0 (KeyError).
SaveDistrictSummary ==
    /\ kpc = "save"
    /\ IF ~Serializable(ksum)
       THEN /\ kjson' = "partial"
            /\ kret' = "TypeError"
            /\ UNCHANGED kreport
       ELSE /\ kjson' = "written"
            /\ IF ~ksum.has_percentages
               THEN kreport' = "partial" /\ kret' = "KeyError"
               ELSE kreport' = "written" /\ kret' = "returned"
    /\ kpc' = "done"
    /\ UNCHANGED <<kidx, ksum, kexpect, notCD>>

StartCD ==
    /\ kpc = "loop"
    /\ kidx = 1
    /\ ksum = district_summary0
    /\ kexpect = Expected0
    /\ kjson = "none"
    /\ kreport = "none"
    /\ kret = "none"

ParkedCD == StartCD

NextCD ==
    \/ ProcessCounty
    \/ DistrictPercentages
    \/ SaveDistrictSummary

\* ------------------------------------------------------------------------
\* Claims about summarize_district_results (checked under SpecCounty)
\* ------------------------------------------------------------------------
RECURSIVE BreakdownVotes(_, _)
BreakdownVotes(breakdown, counties) ==
    IF counties = {} THEN 0
    ELSE LET c == CHOOSE x \in counties : TRUE
         IN  breakdown[c].total_votes + BreakdownVotes(breakdown, counties \ {c})

\* C9: once the loop over the five template counties is over, the district
\* total_registered, total_votes, democratic_votes and republican_votes are
\* the sums, over the counties whose data file exists and can be processed,
\* of the rows flagged in_ca13 == 'Yes'; counties without data contribute
\* nothing; every county and district percentage is party votes / total
\* votes * 100; and the county_breakdown total_votes values sum to the
\* district total_votes.
C9_TotalsAreSumsOfYesRows ==
    kpc \in {"percent", "save", "done"} =>
        /\ ksum.total_registered = kexpect.total_registered
        /\ ksum.total_votes = kexpect.total_votes
        /\ ksum.democratic_votes = kexpect.democratic_votes
        /\ ksum.republican_votes = kexpect.republican_votes
        /\ DOMAIN ksum.county_breakdown \subseteq DOMAIN kexpect.by_county
        /\ \A c \in DOMAIN ksum.county_breakdown :
              LET got == ksum.county_breakdown[c]
                  want == kexpect.by_county[c]
              IN  /\ got.total_votes = want.total_votes
                  /\ got.democratic_percentage.num = want.democratic_votes * 100
                  /\ got.democratic_percentage.den = want.total_votes
                  /\ got.republican_percentage.num = want.republican_votes * 100
                  /\ got.republican_percentage.den = want.total_votes
        /\ ksum.has_percentages =>
              /\ ksum.democratic_percentage.num = kexpect.democratic_votes * 100
              /\ ksum.democratic_percentage.den = kexpect.total_votes
              /\ ksum.republican_percentage.num = kexpect.republican_votes * 100
              /\ ksum.republican_percentage.den = kexpect.total_votes
        /\ (kpc # "percent" /\ kexpect.total_votes > 0) => ksum.has_percentages
        /\ BreakdownVotes(ksum.county_breakdown, DOMAIN ksum.county_breakdown)
              = ksum.total_votes

\* C9 witness: the call returned a summary built from two counties with
\* votes (4 and 8 votes, 5 of the 12 Democratic), the other three counties
\* having no usable data.
C9_Witness ==
    /\ kret = "returned"
    /\ DOMAIN kexpect.by_county = {"Fresno", "Stanislaus"}
    /\ DOMAIN ksum.county_breakdown = {"Fresno", "Stanislaus"}
    /\ ksum.total_votes = 12
    /\ ksum.democratic_percentage = [num |-> 500, den |-> 12]

\* C20: summarize_district_results completes whatever county data files are
\* present or absent -- also with none at all, or with a CA-13 vote total of
\* zero: the JSON summary and the text report are both written in full and
\* the summary is returned.
C20_AlwaysCompletes ==
    kpc = "done" =>
        /\ kjson = "written"
        /\ kreport = "written"
        /\ kret = "returned"

\* ========================================================================
\* exploration/ca13-potential-analysis.py: CA13PotentialAnalyzer
\* ========================================================================
\* Rates and improvements are in percentage points (0.54 is 54), so that
\* rate + improvement and the cap are exact; votes are then in hundredths of
\* a vote, and a share is the exact fraction num / den of 100 * votes over
\* total_votes.

\* self.demographics as __init__ sets it (the fields analyze_turnout_impact reads).
demographics ==
    [Hispanic |-> [cvap |-> 197495, turnout_rate |-> 54],
     Black    |-> [cvap |-> 16130,  turnout_rate |-> 63],
     Asian    |-> [cvap |-> 24392,  turnout_rate |-> 59],
     White    |-> [cvap |-> 145957, turnout_rate |-> 71]]

\* self.demographics.items(), in insertion order.
Groups == <<"Hispanic", "Black", "Asian", "White">>

GroupSet == {Groups[i] : i \in 1..Len(Groups)}

\* improvements = [0, 0.05, 0.10, 0.15]
improvements == <<0, 5, 10, 15>>

\* The turnout rates a call may find in self.demographics: the value
\* __init__ sets, or a rate the attribute was given since (high enough for
\* an improvement to pass 100%).
HighRates == {90, 100}

TurnoutRates(group) == {demographics[group].turnout_rate} \cup HighRates

Min(a, b) == IF a < b THEN a ELSE b

\* new_turnout = min(1.0, data['turnout_rate'] + imp)
new_turnout(data, imp) == Min(100, data.turnout_rate + imp)

\* votes = data['cvap'] * new_turnout
group_votes(data, imp) == data.cvap * new_turnout(data, imp)

RECURSIVE total_votes_uncapped(_, _, _)
total_votes_uncapped(demo, imp, i) ==
    IF i > Len(Groups) THEN 0
    ELSE demo[Groups[i]].cvap * (demo[Groups[i]].turnout_rate + imp)
            + total_votes_uncapped(demo, imp, i + 1)

\* The first inner loop: total_votes += votes, for the groups from i on.
RECURSIVE total_votes(_, _, _)
total_votes(demo, imp, i) ==
    IF i > Len(Groups) THEN 0
    ELSE group_votes(demo[Groups[i]], imp) + total_votes(demo, imp, i + 1)

\* The second inner loop: shares[group] = (votes / total_votes) * 100
scenario_shares(demo, imp, total) ==
    [group \in GroupSet |->
        [num |-> group_votes(demo[group], imp) * 100, den |-> total]]

\* The key f'+{int(imp*100)}%' of a scenario, as the number of points.
scenario_key(imp) == imp

NoScenarios == [k \in {} |-> 0]

ScenarioTotal ==
    /\ tpc = "total"
    /\ ttotal' = total_votes(tdemo, improvements[timp], 1)
    /\ tpc' = "shares"
    /\ UNCHANGED <<tdemo, timp, tscen, notTP>>

ScenarioShares ==
    /\ tpc = "shares"
    /\ LET imp == improvements[timp]
           shares == scenario_shares(tdemo, imp, ttotal)
       IN  tscen' = [k \in DOMAIN tscen \cup {scenario_key(imp)} |->
                        IF k = scenario_key(imp) THEN shares ELSE tscen[k]]
    /\ timp' = timp + 1
    /\ tpc' = IF timp = Len(improvements) THEN "plot" ELSE "total"
    /\ UNCHANGED <<tdemo, ttotal, notTP>>

\* The rest of the function: the two plots, savefig and the printed table,
\* none of which changes scenarios.
PlotScenarios ==
    /\ tpc = "plot"
    /\ tpc' = "done"
    /\ UNCHANGED <<tdemo, timp, ttotal, tscen, notTP>>

StartTP ==
    /\ tpc = "total"
    /\ tdemo \in {d \in [GroupSet -> [cvap : {demographics[g].cvap : g \in GroupSet},
                                      turnout_rate : UNION {TurnoutRates(g) : g \in GroupSet}]] :
                    \A g \in GroupSet : /\ d[g].cvap = demographics[g].cvap
                                        /\ d[g].turnout_rate \in TurnoutRates(g)}
    /\ timp = 1
    /\ ttotal = 0
    /\ tscen = NoScenarios

ParkedTP ==
    /\ tpc = "total"
    /\ tdemo = demographics
    /\ timp = 1
    /\ ttotal = 0
    /\ tscen = NoScenarios

NextTP ==
    \/ ScenarioTotal
    \/ ScenarioShares
    \/ PlotScenarios

\* ------------------------------------------------------------------------
\* Claims about analyze_turnout_impact (checked under SpecTurnout)
\* ------------------------------------------------------------------------
Capped(rate, points) == IF rate + points > 100 THEN 100 ELSE rate + points

RECURSIVE CappedVotes(_, _, _)
CappedVotes(demo, points, groups) ==
    IF groups = {} THEN 0
    ELSE LET g == CHOOSE x \in groups : TRUE
         IN  demo[g].cvap * Capped(demo[g].turnout_rate, points)
                + CappedVotes(demo, points, groups \ {g})

RECURSIVE WholePercents(_, _)
WholePercents(shares, groups) ==
    IF groups = {} THEN 0
    ELSE LET g == CHOOSE x \in groups : TRUE
         IN  (shares[g].num \div shares[g].den) + WholePercents(shares, groups \ {g})

RECURSIVE PercentRemainders(_, _)
PercentRemainders(shares, groups) ==
    IF groups = {} THEN 0
    ELSE LET g == CHOOSE x \in groups : TRUE
         IN  (shares[g].num % shares[g].den) + PercentRemainders(shares, groups \ {g})

\* The fractions shares[g].num / shares[g].den, all over one denominator,
\* add up to exactly 100.
SharesSumTo100(shares) ==
    LET den == shares[Groups[1]].den
        rem == PercentRemainders(shares, GroupSet)
    IN  /\ \A g \in GroupSet : shares[g].den = den
        /\ den > 0
        /\ rem % den = 0
        /\ WholePercents(shares, GroupSet) + (rem \div den) = 100

\* C10: every scenario stored in scenarios (0, 5, 10 or 15 points) gives each
\* of the four groups the share 100 * cvap * min(100%, rate + improvement)
\* over a denominator that is the sum of the same capped votes of the four
\* groups, so no turnout above 100% enters a share and the four shares of a
\* scenario sum to 100.
C10_CappedSharesPartition ==
    /\ DOMAIN tscen \subseteq {0, 5, 10, 15}
    /\ tpc \in {"plot", "done"} => DOMAIN tscen = {0, 5, 10, 15}
    /\ \A points \in DOMAIN tscen :
          /\ DOMAIN tscen[points] = GroupSet
          /\ \A g \in GroupSet :
                /\ tscen[points][g].num
                      = tdemo[g].cvap * Capped(tdemo[g].turnout_rate, points) * 100
                /\ tscen[points][g].num <= tdemo[g].cvap * 100 * 100
                /\ tscen[points][g].den = CappedVotes(tdemo, points, GroupSet)
          /\ SharesSumTo100(tscen[points])

\* C10 witness: the call is over, the White rate was 90% and the Hispanic
\* rate 54%: in the +15 scenario the White turnout was capped at 100% (its
\* share is 100 * 145957 * 100 over the total) while the Hispanic one rose to
\* 69%, and the shares of that scenario sum to 100.
C10_Witness ==
    /\ tpc = "done"
    /\ tdemo["White"].turnout_rate = 90
    /\ tdemo["Hispanic"].turnout_rate = 54
    /\ tscen[15]["White"].num = 145957 * 100 * 100
    /\ tscen[15]["Hispanic"].num = 197495 * 69 * 100
    /\ SharesSumTo100(tscen[15])

\* ========================================================================
\* models/data-collection-fec.py, congressional-model-v3.py,
\* congressional-model-v4.py: leave-one-out evaluation
\* ========================================================================
\* Vote shares are in thousandths of a percentage point (57.8 is 57800), so
\* that the means of the table are exact.

\* The year and democratic_vote_share columns of the hardcoded table (the
\* same in the three scripts).
historical_results ==
    <<[year |-> 2012, democratic_vote_share |-> 57800],
      [year |-> 2014, democratic_vote_share |-> 56200],
      [year |-> 2016, democratic_vote_share |-> 58100],
      [year |-> 2018, democratic_vote_share |-> 56900],
      [year |-> 2020, democratic_vote_share |-> 59700]>>

Scripts == {"data-collection-fec", "congressional-model-v3", "congressional-model-v4"}

RECURSIVE SumShares(_, _)
SumShares(rows, i) ==
    IF i > Len(rows) THEN 0
    ELSE rows[i].democratic_vote_share + SumShares(rows, i + 1)

\* Series.mean() of the democratic_vote_share column.
MeanShare(rows) == SumShares(rows, 1) \div Len(rows)

\* A frame: each row carries its index label (0-based, as pandas numbers
\* the rows of the table), whether a derived column of it is NaN, and the
\* vote_share_deviation column (0 where the script has no such column).
Frame(deviation_of, nan_of) ==
    [i \in 1..Len(historical_results) |->
        [label |-> i - 1,
         year |-> historical_results[i].year,
         democratic_vote_share |-> historical_results[i].democratic_vote_share,
         vote_share_deviation |-> deviation_of[i],
         nan |-> nan_of[i]]]

RECURSIVE dropna(_)
dropna(rows) ==
    IF rows = <<>> THEN <<>>
    ELSE IF Head(rows).nan THEN dropna(Tail(rows))
    ELSE <<Head(rows)>> \o dropna(Tail(rows))

NoDeviation == [i \in 1..Len(historical_results) |-> 0]

\* shift(1), diff() and pct_change() leave NaN in the first row only.
FirstRowNaN == [i \in 1..Len(historical_results) |-> i = 1]

NoNaN == [i \in 1..Len(historical_results) |-> FALSE]

prepare_historical_data == Frame(NoDeviation, NoNaN)

prepare_enhanced_data == dropna(Frame(NoDeviation, FirstRowNaN))

\* baseline_vote_share is the mean of the whole table, taken before dropna.
prepare_deviation_data ==
    LET baseline_vote_share == MeanShare(historical_results)
    IN  dropna(Frame([i \in 1..Len(historical_results) |->
                        historical_results[i].democratic_vote_share - baseline_vote_share],
                     FirstRowNaN))

\* y: data['democratic_vote_share'], or data['vote_share_deviation'] in v4.
TargetOf(script, row) ==
    IF script = "congressional-model-v4" THEN row.vote_share_deviation
    ELSE row.democratic_vote_share

\* Selecting by index label instead of by position.
by_label(script, data, positions) ==
    {TargetOf(script, data[k]) : k \in {j \in 1..Len(data) : data[j].label \in positions}}

\* y.iloc[positions]: the targets of the rows at these 0-based positions.
iloc(script, data, positions) ==
    {TargetOf(script, data[k]) : k \in {j \in 1..Len(data) : j - 1 \in positions}}

\* LeaveOneOut().split(X), fold i (0-based): train_idx, test_idx.
loo_split(n, i) == [train_idx |-> (0..(n - 1)) \ {i}, test_idx |-> {i}]

SetMin(S) == CHOOSE x \in S : \A y \in S : x <= y

SetMax(S) == CHOOSE x \in S : \A y \in S : x >= y

\* What a regressor fitted on y_train may predict: here the lowest or the
\* highest target it was fitted on (the regressors themselves are left open).
Predictions(y_train) == {SetMin(y_train), SetMax(y_train)}

PrepareHistoricalData ==
    /\ mpc = "start"
    /\ mscript' = "data-collection-fec"
    /\ mdata' = prepare_historical_data
    /\ mpc' = "loo"
    /\ UNCHANGED <<mfolds, mactuals, mfirst, msecond, mreturned, mcsv, notML>>

PrepareEnhancedData ==
    /\ mpc = "start"
    /\ mscript' = "congressional-model-v3"
    /\ mdata' = prepare_enhanced_data
    /\ mpc' = "loo"
    /\ UNCHANGED <<mfolds, mactuals, mfirst, msecond, mreturned, mcsv, notML>>

PrepareDeviationData ==
    /\ mpc = "start"
    /\ mscript' = "congressional-model-v4"
    /\ mdata' = prepare_deviation_data
    /\ mpc' = "loo"
    /\ UNCHANGED <<mfolds, mactuals, mfirst, msecond, mreturned, mcsv, notML>>

\* One pass of `for train_idx, test_idx in loo.split(X)`: both regressors are
\* fitted on the training rows, predict the held-out row, and the three lists
\* are extended.
Fold ==
    /\ mpc = "loo"
    /\ Len(mfolds) < Len(mdata)
    /\ LET split == loo_split(Len(mdata), Len(mfolds))
           y_train == iloc(mscript, mdata, split.train_idx)
           y_test == iloc(mscript, mdata, split.test_idx)
       IN  /\ mfolds' = Append(mfolds, [train_idx |-> split.train_idx,
                                        y_train |-> y_train,
                                        test_idx |-> split.test_idx])
           /\ \E first \in Predictions(y_train), second \in Predictions(y_train) :
                 /\ mfirst' = Append(mfirst, first)
                 /\ msecond' = Append(msecond, second)
           \* actuals.extend(y_test): one entry per element of y_test
           /\ mactuals' = IF y_test = {} THEN mactuals
                          ELSE Append(mactuals, CHOOSE v \in y_test : TRUE)
    /\ UNCHANGED <<mpc, mscript, mdata, mreturned, mcsv, notML>>

\* The baseline train_and_evaluate adds back:
\* data['democratic_vote_share'].mean(), over the rows dropna kept.
train_baseline(data) == MeanShare(data)

\* What the evaluation hands back as the actual values: the list itself,
\* or in v4 np.array(actuals) + baseline.
actual_vote_shares(script, data, actuals) ==
    IF script = "congressional-model-v4"
    THEN [k \in 1..Len(actuals) |-> actuals[k] + train_baseline(data)]
    ELSE actuals

\* The loop is exhausted: the metrics are computed and the lists returned.
Evaluate ==
    /\ mpc = "loo"
    /\ Len(mfolds) = Len(mdata)
    /\ mreturned' = actual_vote_shares(mscript, mdata, mactuals)
    /\ mpc' = "save"
    /\ UNCHANGED <<mscript, mdata, mfolds, mactuals, mfirst, msecond, mcsv, notML>>

\* pd.DataFrame({'Year': data['year'], 'Actual': ..., ...}).to_csv(...): the
\* lists are laid beside the year column by position; lists of another
\* length make the constructor raise and nothing is saved.
SavePredictions ==
    /\ mpc = "save"
    /\ mcsv' = IF Len(mreturned) = Len(mdata) /\ Len(mfirst) = Len(mdata)
                  /\ Len(msecond) = Len(mdata)
               THEN [k \in 1..Len(mdata) |->
                        [Year |-> mdata[k].year, Actual |-> mreturned[k],
                         First |-> mfirst[k], Second |-> msecond[k]]]
               ELSE <<>>
    /\ mpc' = "done"
    /\ UNCHANGED <<mscript, mdata, mfolds, mactuals, mfirst, msecond, mreturned, notML>>

StartML ==
    /\ mpc = "start"
    /\ mscript = ""
    /\ mdata = <<>>
    /\ mfolds = <<>>
    /\ mactuals = <<>>
    /\ mfirst = <<>>
    /\ msecond = <<>>
    /\ mreturned = <<>>
    /\ mcsv = <<>>

ParkedML == StartML

NextML ==
    \/ PrepareHistoricalData
    \/ PrepareEnhancedData
    \/ PrepareDeviationData
    \/ Fold
    \/ Evaluate
    \/ SavePredictions

\* ------------------------------------------------------------------------
\* Claims about the leave-one-out scripts (checked under SpecModels)
\* ------------------------------------------------------------------------
\* C11: in each of the three scripts, once the loop is over, every row of
\* the input was the held-out row of exactly one fold (fold k holds out row
\* k), the regressors of that fold were fitted on exactly the other N-1
\* rows, the three lists hold one entry per row with actuals in row order,
\* and the saved CSV pairs, row by row, each year with the actual entry of
\* its own row.
C11_LeaveOneOutPairsRows ==
    LET n == Len(mdata)
        target(k) == TargetOf(mscript, mdata[k])
    IN  /\ Len(mfolds) <= n
        /\ Len(mactuals) = Len(mfolds)
        /\ Len(mfirst) = Len(mfolds)
        /\ Len(msecond) = Len(mfolds)
        /\ \A k \in 1..Len(mfolds) :
              /\ mfolds[k].test_idx = {k - 1}
              /\ mfolds[k].train_idx = (0..(n - 1)) \ {k - 1}
              /\ Cardinality(mfolds[k].train_idx) = n - 1
              /\ mfolds[k].y_train = {target(j) : j \in (1..n) \ {k}}
              /\ mactuals[k] = target(k)
        /\ mpc \in {"save", "done"} =>
              /\ Len(mfolds) = n
              /\ \A j \in 1..n : Cardinality({k \in 1..n : mfolds[k].test_idx = {j - 1}}) = 1
        /\ mpc = "done" =>
              /\ Len(mcsv) = n
              /\ \A k \in 1..n :
                    /\ mcsv[k].Year = mdata[k].year
                    /\ mcsv[k].Actual = mreturned[k]
                    /\ mreturned[k] = actual_vote_shares(mscript, mdata,
                                          [j \in 1..n |-> target(j)])[k]

\* C11 witness: congressional-model-v3 (four rows, index labels 1..4 after
\* dropna) has saved its CSV: four folds, the third of which held out the
\* 2018 row and was fitted on the 2014, 2016 and 2020 rows, and the CSV pairs
\* 2018 with 56.9.
C11_Witness ==
    /\ mpc = "done"
    /\ mscript = "congressional-model-v3"
    /\ Len(mfolds) = 4
    /\ mfolds[3].y_train = {56200, 58100, 59700}
    /\ mcsv[3].Year = 2018
    /\ mcsv[3].Actual = 56900

\* C15: in congressional-model-v4, for every row prepare_deviation_data
\* returned, vote_share_deviation plus the baseline train_and_evaluate adds
\* equals the row's democratic_vote_share, so the values returned as actual
\* vote shares, and the 'Actual' column of the saved CSV, are the historical
\* shares of the table.
C15_DeviationRoundTrip ==
    mscript = "congressional-model-v4" =>
        /\ \A k \in 1..Len(mdata) :
              mdata[k].vote_share_deviation + train_baseline(mdata)
                  = mdata[k].democratic_vote_share
        /\ \A k \in 1..Len(mreturned) :
              mreturned[k] = mdata[k].democratic_vote_share
        /\ \A k \in 1..Len(mcsv) :
              mcsv[k].Actual = mdata[k].democratic_vote_share

\* ========================================================================
\* collect_codebase.py
\* ========================================================================
\* A file name is the sequence of its dot-separated parts ("setup.py" is
\* <<"setup", "py">>, ".json" is <<"", "json">>); a directory is the
\* sequence of its path components below the project root.

\* EXTENSIONS = {'.py', '.md', '.txt', '.json'}, without the dot.
EXTENSIONS == {"py", "md", "txt", "json"}

\* The names the comprehension at line 17 removes from dirs.
SkippedDirs == {"__pycache__", ".git", "env", "venv"}

\* pathlib's Path.suffix: the last dot-separated part, "" when the name has
\* no dot or only a leading one.
Suffix(name) ==
    IF Len(name) < 2 THEN ""
    ELSE IF Len(name) = 2 /\ name[1] = "" THEN ""
    ELSE name[Len(name)]

\* The directories of the project.
ProjectDirs ==
    {<<>>, <<"src">>, <<"src", "models">>, <<"src", "env">>,
     <<"__pycache__">>, <<".git">>, <<".git", "hooks">>, <<"venv">>}

\* The files a directory may hold.
FileChoices(dir) ==
    IF dir = <<>> THEN {<<"setup", "py">>, <<"README", "md">>, <<"data", "csv">>}
    ELSE IF dir = <<"src">> THEN {<<"notes", "txt">>, <<"config", "json">>, <<"", "json">>}
    ELSE IF dir = <<"src", "models">> THEN {<<"model", "py">>, <<"run", "PY">>}
    ELSE {<<"cached", "py">>}

WalkableDirs == {<<>>, <<"src">>, <<"src", "models">>}

\* output_file = 'project_codebase.txt', which open(output_file, 'w') has
\* created when the walk lists the directory the script is started in.
OutputFile == [dir |-> <<>>, name |-> <<"project_codebase", "txt">>]

Subdirs(dir) == {d \in ProjectDirs : Len(d) = Len(dir) + 1 /\ SubSeq(d, 1, Len(dir)) = dir}

LastOf(dir) == dir[Len(dir)]

keep_all(dirs) == dirs

\* dirs[:] = [d for d in dirs if d not in ['__pycache__', '.git', 'env', 'venv']]
prune(dirs) == {d \in dirs : LastOf(d) \notin SkippedDirs}

\* A set as a sequence, in the one order the model lists a directory in.
RECURSIVE Listing(_)
Listing(S) ==
    IF S = {} THEN <<>>
    ELSE LET x == CHOOSE y \in S : TRUE IN <<x>> \o Listing(S \ {x})

\* file_path.relative_to(project_root): the directory's components, then
\* the file name.
relative_path(file) == file.dir \o <<file.name>>

\* The header and what follows it: the contents, or the error line.
Section(file, unreadable) ==
    [path |-> relative_path(file),
     body |-> IF file \in unreadable THEN "error"
              ELSE IF file = OutputFile THEN "written so far"
              ELSE "contents"]

\* with open(output_file, 'w') as out: the walk starts at project_root.
OpenCollection ==
    /\ wpc = "open"
    /\ wpc' = "walk"
    /\ wpending' = <<<<>>>>
    /\ UNCHANGED <<wfs, wunreadable, wroot, wfiles, wvisited, wout, notCC>>

\* os.walk yields the next directory; line 17 prunes its dirs in place, and
\* os.walk will descend into what is left of them.
WalkDirectory ==
    /\ wpc = "walk"
    /\ wpending # <<>>
    /\ LET root == Head(wpending)
       IN  /\ wroot' = root
           /\ wvisited' = wvisited \cup {root}
           /\ wpending' = Listing(prune(Subdirs(root))) \o Tail(wpending)
           /\ wfiles' = Listing({f \in wfs : f.dir = root})
    /\ wpc' = "files"
    /\ UNCHANGED <<wfs, wunreadable, wout, notCC>>

\* One pass of `for file in files` for a file with a listed extension.
WriteSection ==
    /\ wpc = "files"
    /\ wfiles # <<>>
    /\ Suffix(Head(wfiles).name) \in EXTENSIONS
    /\ wout' = Append(wout, Section(Head(wfiles), wunreadable))
    /\ wfiles' = Tail(wfiles)
    /\ UNCHANGED <<wpc, wfs, wunreadable, wpending, wroot, wvisited, notCC>>

\* One pass of `for file in files` for any other file.
SkipFile ==
    /\ wpc = "files"
    /\ wfiles # <<>>
    /\ Suffix(Head(wfiles).name) \notin EXTENSIONS
    /\ wfiles' = Tail(wfiles)
    /\ UNCHANGED <<wpc, wfs, wunreadable, wpending, wroot, wvisited, wout, notCC>>

\* The files of this directory are done: back to os.walk.
NextDirectory ==
    /\ wpc = "files"
    /\ wfiles = <<>>
    /\ wpc' = "walk"
    /\ UNCHANGED <<wfs, wunreadable, wpending, wroot, wfiles, wvisited, wout, notCC>>

\* os.walk is exhausted: the with block closes the output file.
CloseCollection ==
    /\ wpc = "walk"
    /\ wpending = <<>>
    /\ wpc' = "closed"
    /\ UNCHANGED <<wfs, wunreadable, wpending, wroot, wfiles, wvisited, wout, notCC>>

ParkedCC ==
    /\ wpc = "open"
    /\ wfs = {}
    /\ wunreadable = {}
    /\ wpending = <<>>
    /\ wroot = <<>>
    /\ wfiles = <<>>
    /\ wvisited = {}
    /\ wout = <<>>

\* Any choice of files in the three ordinary directories, one .py file in
\* each directory with a skipped name (and below .git), the output file in
\* the project root or elsewhere, and any of the files unreadable.
StartCC ==
    /\ wpc = "open"
    /\ \E top \in SUBSET FileChoices(<<>>),
          src \in SUBSET FileChoices(<<"src">>),
          models \in SUBSET FileChoices(<<"src", "models">>),
          own \in SUBSET {OutputFile} :
          wfs = (((({[dir |-> <<>>, name |-> n] : n \in top}
                      \cup {[dir |-> <<"src">>, name |-> n] : n \in src})
                      \cup {[dir |-> <<"src", "models">>, name |-> n] : n \in models})
                      \cup {[dir |-> d, name |-> <<"cached", "py">>] :
                               d \in ProjectDirs \ WalkableDirs})
                      \cup own)
    /\ wunreadable \in SUBSET {[dir |-> <<>>, name |-> <<"setup", "py">>],
                               [dir |-> <<"src">>, name |-> <<"config", "json">>]}
    /\ wpending = <<>>
    /\ wroot = <<>>
    /\ wfiles = <<>>
    /\ wvisited = {}
    /\ wout = <<>>

NextCC ==
    \/ OpenCollection
    \/ WalkDirectory
    \/ WriteSection
    \/ SkipFile
    \/ NextDirectory
    \/ CloseCollection

\* ------------------------------------------------------------------------
\* Claims about collect_codebase (checked under SpecCollect)
\* ------------------------------------------------------------------------
UnderSkipped(dir) == \E k \in 1..Len(dir) : dir[k] \in {"__pycache__", ".git", "env", "venv"}

Wanted(file) ==
    /\ file.name[Len(file.name)] \in {"py", "md", "txt", "json"}
    /\ Len(file.name) > 1
    /\ ~(Len(file.name) = 2 /\ file.name[1] = "")
    /\ ~UnderSkipped(file.dir)

SectionsFor(file) == {k \in 1..Len(wout) : wout[k].path = file.dir \o <<file.name>>}

\* C12: os.walk never yields a directory named __pycache__, .git, env or
\* venv, nor one below such a directory; once the output file is closed it
\* holds exactly one section for every file outside those directories whose
\* suffix is .py, .md, .txt or .json, and none for any other file; the
\* section of a file that could not be read holds the error line, and the
\* files after it still have their sections.
C12_OneSectionPerListedFile ==
    /\ \A d \in wvisited : ~UnderSkipped(d)
    /\ \A k \in 1..Len(wout) :
          \E f \in wfs : Wanted(f) /\ wout[k].path = f.dir \o <<f.name>>
    /\ \A f \in wfs : Cardinality(SectionsFor(f)) <= 1
    /\ wpc = "closed" =>
          \A f \in wfs :
             IF Wanted(f)
             THEN /\ Cardinality(SectionsFor(f)) = 1
                  /\ \A k \in SectionsFor(f) :
                        (wout[k].body = "error") <=> (f \in wunreadable)
             ELSE SectionsFor(f) = {}

\* C12 witness: the call is over; setup.py could not be read and has its
\* error line, and files listed after it (README.md in the same directory,
\* src/notes.txt and src/models/model.py below) have their sections with
\* their contents, while src/.json, data.csv and the files in the skipped
\* directories have none.
C12_Witness ==
    /\ wpc = "closed"
    /\ [dir |-> <<"src">>, name |-> <<"", "json">>] \in wfs
    /\ [dir |-> <<>>, name |-> <<"data", "csv">>] \in wfs
    /\ \E i, j, k, l \in 1..Len(wout) :
          /\ wout[i] = [path |-> <<<<"setup", "py">>>>, body |-> "error"]
          /\ wout[j] = [path |-> <<<<"README", "md">>>>, body |-> "contents"]
          /\ wout[k] = [path |-> <<"src", <<"notes", "txt">>>>, body |-> "contents"]
          /\ wout[l] = [path |-> <<"src", "models", <<"model", "py">>>>, body |-> "contents"]
          /\ i < k
          /\ k < l
    /\ Len(wout) = 4

\* ========================================================================
\* The __main__ blocks of fec-data-fetcher.py, demographic_analyzer.py,
\* ca13-spatial-analyzer.py and district_processor.py
\* ========================================================================
GatedScripts ==
    {"fec-data-fetcher", "demographic_analyzer", "ca13-spatial-analyzer",
     "district_processor"}

\* CA13DemographicAnalyzer.load_data: True when gpd.read_file returned,
\* False from except Exception.
demographic_load_data(read) == read.ok

\* CA13SpatialAnalyzer.load_all_data: three reads in one try block.
load_all_data(districts, precincts, tracts) ==
    IF ~districts.ok THEN FALSE
    ELSE IF ~precincts.ok THEN FALSE
    ELSE tracts.ok

\* What the loader of a script can return, over everything its environment
\* can do (process_district_data returns True or False on every path).
LoaderResults(script) ==
    IF script = "fec-data-fetcher"
    THEN {test_api_connection(resp) : resp \in Responses({<<>>})}
    ELSE IF script = "demographic_analyzer"
    THEN {demographic_load_data(read) : read \in Reads}
    ELSE IF script = "ca13-spatial-analyzer"
    THEN {load_all_data(d, p, t) : d \in Reads, p \in Reads, t \in Reads}
    ELSE BOOLEAN

\* The calls in the if branch of each __main__.
AnalysisSteps(script) ==
    IF script = "fec-data-fetcher" THEN <<"fetch_and_save_all_data">>
    ELSE IF script = "demographic_analyzer" THEN <<"analyze_demographics">>
    ELSE IF script = "ca13-spatial-analyzer"
    THEN <<"create_district_map", "create_precinct_map">>
    ELSE <<"analyze_district_data">>

main_branch_unconditional(ret) == "analysis"

\* if <loader>(): ... else: print(<failure message>)
main_branch(ret) == IF ret THEN "analysis" ELSE "message"

GateSet(f, script, v) == [f EXCEPT ![script] = v]

\* The condition of the if statement: the loader is called.
CallLoader ==
    \E script \in GatedScripts :
        /\ gpc[script] = "start"
        /\ \E ret \in LoaderResults(script) :
              /\ gret' = GateSet(gret, script, IF ret THEN "True" ELSE "False")
              /\ gpc' = GateSet(gpc, script, main_branch(ret))
        /\ UNCHANGED <<gran, gmsg, notGate>>

\* The next call of the if branch; an exception that leaves it ends the
\* script with a traceback.
AnalysisStep ==
    \E script \in GatedScripts :
        /\ gpc[script] = "analysis"
        /\ Len(gran[script]) < Len(AnalysisSteps(script))
        /\ gran' = GateSet(gran, script,
                      Append(gran[script], AnalysisSteps(script)[Len(gran[script]) + 1]))
        /\ \E raised \in BOOLEAN :
              gpc' = GateSet(gpc, script,
                        IF raised THEN "crashed"
                        ELSE IF Len(gran'[script]) = Len(AnalysisSteps(script)) THEN "done"
                        ELSE "analysis")
        /\ UNCHANGED <<gret, gmsg, notGate>>

\* The else branch: the failure message, and the script ends.
FailureMessage ==
    \E script \in GatedScripts :
        /\ gpc[script] = "message"
        /\ gmsg' = GateSet(gmsg, script, TRUE)
        /\ gpc' = GateSet(gpc, script, "done")
        /\ UNCHANGED <<gret, gran, notGate>>

StartGate ==
    /\ gpc = [script \in GatedScripts |-> "start"]
    /\ gret = [script \in GatedScripts |-> "none"]
    /\ gran = [script \in GatedScripts |-> <<>>]
    /\ gmsg = [script \in GatedScripts |-> FALSE]

ParkedGate == StartGate

NextGate ==
    \/ CallLoader
    \/ AnalysisStep
    \/ FailureMessage

\* ------------------------------------------------------------------------
\* Claims about the gated __main__ blocks (checked under SpecGate)
\* ------------------------------------------------------------------------
\* C13: in each of the four scripts an analysis step has been called only if
\* the loader was called before and returned True; after a loader result of
\* False no analysis step is ever called and the only thing that follows is
\* the failure message, which is printed in no other case.
C13_AnalysisOnlyAfterLoaderTrue ==
    \A script \in {"fec-data-fetcher", "demographic_analyzer",
                   "ca13-spatial-analyzer", "district_processor"} :
        /\ gran[script] # <<>> => gret[script] = "True"
        /\ gret[script] = "False" => gran[script] = <<>>
        /\ gret[script] = "False" => gpc[script] \in {"message", "done"}
        /\ gmsg[script] => gret[script] = "False"
        /\ (gret[script] = "False" /\ gpc[script] = "done") => gmsg[script]
        /\ gret[script] = "none" => (gpc[script] = "start" /\ ~gmsg[script])

\* C13 witness: the spatial analyzer loaded its data and both maps were
\* called for, while the FEC connection test returned False and the fetcher
\* ended with its message and no fetch.
C13_Witness ==
    /\ gret["ca13-spatial-analyzer"] = "True"
    /\ gran["ca13-spatial-analyzer"] = <<"create_district_map", "create_precinct_map">>
    /\ gret["fec-data-fetcher"] = "False"
    /\ gpc["fec-data-fetcher"] = "done"
    /\ gmsg["fec-data-fetcher"]
    /\ gran["fec-data-fetcher"] = <<>>

\* ========================================================================
\* financial/ca13-finance-analyzer.py: CA13FinanceAnalyzer
\* ========================================================================
\* The candidates maps a complete file may hold.
SavedMaps ==
    {<<>>,
     <<Entry([candidate_id |-> 1, name |-> "GRAY"], <<[totals_of |-> 1]>>)>>,
     <<Entry([candidate_id |-> 1, name |-> "GRAY"], <<[totals_of |-> 1]>>),
       Entry([candidate_id |-> 2, name |-> "DUARTE"], <<[totals_of |-> 2]>>)>>}

\* The file: absent, complete, or cut off anywhere (a writer is at work or
\* was interrupted).
FinanceFiles ==
    {[exists |-> FALSE, content |-> <<>>]}
    \cup UNION {{[exists |-> TRUE, content |-> Prefix(Doc(m), k)] :
                    k \in 0..Len(Doc(m))} : m \in SavedMaps}

\* No attribute self.data: __init__ assigns none, only load_data does.
NoData == [set |-> FALSE, content |-> <<>>]

\* self.data after load_data: assigned inside the try, after json.load.
data_after_load(data, d) ==
    IF load_data(d, FALSE).hasData THEN [set |-> TRUE, content |-> d.content]
    ELSE data

\* self.data['candidates'].items()
SavedCandidates(content) == {i \in 1..Len(content) : content[i].t = "candidate"}

reports_no_data(data) ==
    IF ~data.set THEN "no data loaded"
    ELSE IF SavedCandidates(data.content) = {} THEN "KeyError"
    ELSE "returned"

\* prepare_financial_summary and the first use of its frame: reading
\* self.data raises AttributeError when the attribute was never assigned; an
\* empty candidates map gives a frame without columns, and the column
\* lookup that follows raises KeyError.
prepare_financial_summary(data) ==
    IF ~data.set THEN "AttributeError"
    ELSE IF SavedCandidates(data.content) = {} THEN "KeyError"
    ELSE "returned"

NoFinanceCall == [op |-> "none", outcome |-> "none"]

\* __init__: mkdir(parents=True, exist_ok=True), then self.load_data(), whose
\* result is dropped.
NewCA13FinanceAnalyzer ==
    /\ npc = "new"
    /\ ndata' = data_after_load(NoData, ndisk)
    /\ nloads' = Append(nloads, [seen |-> ndisk, ret |-> load_data(ndisk, FALSE).ret])
    /\ nlast' = [op |-> "__init__", outcome |-> "returned"]
    /\ npc' = "constructed"
    /\ UNCHANGED <<ndisk, notFin>>

analyze_campaign_finances ==
    /\ npc = "constructed"
    /\ nlast' = [op |-> "analyze_campaign_finances",
                 outcome |-> prepare_financial_summary(ndata)]
    /\ UNCHANGED <<npc, ndisk, ndata, nloads, notFin>>

analyze_contribution_patterns ==
    /\ npc = "constructed"
    /\ nlast' = [op |-> "analyze_contribution_patterns",
                 outcome |-> prepare_financial_summary(ndata)]
    /\ UNCHANGED <<npc, ndisk, ndata, nloads, notFin>>

\* Another program replaces the file after the analyzer was constructed.
FileReplaced ==
    /\ npc = "constructed"
    /\ Len(nloads) = 1
    /\ nlast.op = "__init__"
    /\ \E d \in FinanceFiles : d # ndisk /\ ndisk' = d
    /\ UNCHANGED <<npc, ndata, nloads, nlast, notFin>>

ParkedFin ==
    /\ npc = "new"
    /\ ndisk = [exists |-> FALSE, content |-> <<>>]
    /\ ndata = NoData
    /\ nloads = <<>>
    /\ nlast = NoFinanceCall

StartFin ==
    /\ npc = "new"
    /\ ndisk \in FinanceFiles
    /\ ndata = NoData
    /\ nloads = <<>>
    /\ nlast = NoFinanceCall

NextFin ==
    \/ NewCA13FinanceAnalyzer
    \/ analyze_campaign_finances
    \/ analyze_contribution_patterns
    \/ FileReplaced

\* ------------------------------------------------------------------------
\* Claims about CA13FinanceAnalyzer (checked under SpecFinance)
\* ------------------------------------------------------------------------
\* C14: load_data returns False when the file cannot be opened or parsed and
\* None when it can; the constructor returns normally in both cases; after
\* a failed load the attribute self.data does not exist, whatever becomes of
\* the file later, and every call of analyze_campaign_finances or
\* analyze_contribution_patterns then ends in an unhandled AttributeError,
\* never in a report that no data is loaded.
C14_FailedLoadIsIgnored ==
    /\ npc = "constructed" => Len(nloads) = 1
    /\ \A k \in 1..Len(nloads) :
          /\ nloads[k].ret \in {"None", "False"}
          /\ (nloads[k].ret = "None") <=>
                (nloads[k].seen.exists /\ Len(nloads[k].seen.content) > 0
                    /\ nloads[k].seen.content[Len(nloads[k].seen.content)].t = "end")
    /\ nlast.op = "__init__" => nlast.outcome = "returned"
    /\ (npc = "constructed" /\ nloads[1].ret = "False") =>
          /\ ~ndata.set
          /\ nlast.op \in {"analyze_campaign_finances", "analyze_contribution_patterns"}
                => nlast.outcome = "AttributeError"
    /\ (npc = "constructed" /\ nloads[1].ret = "None") =>
          /\ ndata.set
          /\ ndata.content = nloads[1].seen.content
          /\ nlast.outcome # "AttributeError"
    /\ nlast.outcome # "no data loaded"

\* C14 witness: the file was cut off when the constructor read it, load_data
\* returned False, the file has since been replaced by a complete one, and
\* analyze_contribution_patterns still ended in AttributeError.
C14_Witness ==
    /\ npc = "constructed"
    /\ nloads[1].ret = "False"
    /\ nloads[1].seen.exists
    /\ ndisk = [exists |-> TRUE, content |-> OldDoc]
    /\ nlast = [op |-> "analyze_contribution_patterns", outcome |-> "AttributeError"]

\* ========================================================================
\* election_analyzer.py: CA13ElectionAnalyzer.analyze_voter_potential, run
\* after demographic_analyzer.py has (or has not) saved its report
\* ========================================================================
\* Shares are in tenths of a percent (50.2% is 502), head counts times a
\* share are therefore in thousandths of a voter.

\* self.total_cvap = 393416  # From previous analysis
total_cvap == 393416

\* historical_turnout, in percent, in insertion order.
historical_turnout ==
    <<[group |-> "Hispanic", turnout_rate |-> 54],
      [group |-> "Black", turnout_rate |-> 63],
      [group |-> "Asian", turnout_rate |-> 59],
      [group |-> "White", turnout_rate |-> 71]>>

\* The CVAP counts the district file may hold for each group: the counts
\* the hardcoded shares were taken from, or those of another data release.
CvapCounts ==
    [Hispanic : {197495, 180000, 210000}, Black : {16130, 20000},
     Asian : {24392, 30000}, White : {145957, 150000}]

\* f"{pct:.1f}" of (count / cvap_total) * 100: rounded to a tenth of a percent.
FormatPct(count, cvap_total) == (count * 2000 + cvap_total) \div (2 * cvap_total)

\* The "CVAP Demographic Percentages" lines save_analysis writes.
demographic_pcts(cvap) ==
    [group \in {"Hispanic", "Black", "Asian", "White"} |->
        FormatPct(cvap[group], total_cvap)]

NoFile == [exists |-> FALSE, pcts |-> [group \in {} |-> 0]]

\* The if/elif chain at lines 40-47: the share is a literal, and
\* demographic_text is not looked at.
pct_of(group, text) ==
    IF group = "Hispanic" THEN 502
    ELSE IF group = "Black" THEN 41
    ELSE IF group = "Asian" THEN 62
    ELSE 371

NoVoters == [group \in {} |-> 0]

\* demographic_analyzer.py ran first: save_analysis writes the report.
SaveAnalysis ==
    /\ vpc = "start"
    /\ ~vfile.exists
    /\ vfile' = [exists |-> TRUE, pcts |-> demographic_pcts(vcvap)]
    /\ UNCHANGED <<vpc, vcvap, vtext, vgroup, vvoters, notVoter>>

\* with open(... 'CA13_demographic_analysis.txt', 'r') as f: f.read(), outside
\* any try: a missing file ends the script.
ReadDemographicText ==
    /\ vpc = "start"
    /\ IF vfile.exists
       THEN /\ vtext' = vfile
            /\ vpc' = "groups"
       ELSE /\ vtext' = vtext
            /\ vpc' = "crashed"
    /\ UNCHANGED <<vcvap, vfile, vgroup, vvoters, notVoter>>

\* One pass of `for group, turnout_rate in historical_turnout.items()`.
GroupFigures ==
    /\ vpc = "groups"
    /\ LET group == historical_turnout[vgroup].group
           turnout_rate == historical_turnout[vgroup].turnout_rate
           eligible_voters == total_cvap * pct_of(group, vtext)
       IN  vvoters' = [g \in DOMAIN vvoters \cup {group} |->
                          IF g = group
                          THEN [eligible |-> eligible_voters,
                                \* potential_voters = eligible_voters * turnout_rate,
                                \* kept as its two factors
                                potential_turnout |-> [of |-> eligible_voters,
                                                       times |-> turnout_rate],
                                turnout_rate |-> turnout_rate]
                          ELSE vvoters[g]]
    /\ vgroup' = vgroup + 1
    /\ vpc' = IF vgroup = Len(historical_turnout) THEN "report" ELSE "groups"
    /\ UNCHANGED <<vcvap, vfile, vtext, notVoter>>

\* create_turnout_analysis, create_turnout_visualizations and
\* save_turnout_analysis print, plot and save demographic_voters as it is.
ReportTurnout ==
    /\ vpc = "report"
    /\ vpc' = "done"
    /\ UNCHANGED <<vcvap, vfile, vtext, vgroup, vvoters, notVoter>>

ParkedVoter ==
    /\ vpc = "start"
    /\ vcvap = [Hispanic |-> 197495, Black |-> 16130, Asian |-> 24392, White |-> 145957]
    /\ vfile = NoFile
    /\ vtext = NoFile
    /\ vgroup = 1
    /\ vvoters = NoVoters

StartVoter ==
    /\ vpc = "start"
    /\ vcvap \in CvapCounts
    /\ vfile = NoFile
    /\ vtext = NoFile
    /\ vgroup = 1
    /\ vvoters = NoVoters

NextVoter ==
    \/ SaveAnalysis
    \/ ReadDemographicText
    \/ GroupFigures
    \/ ReportTurnout

\* ------------------------------------------------------------------------
\* Claims about analyze_voter_potential (checked under SpecVoter)
\* ------------------------------------------------------------------------
\* C16: the eligible-voter and expected-turnout figures of every group are
\* computed from that group's share as listed in the demographic analysis
\* file that was read, so that runs reading files with different shares give
\* different figures.
C16_SharesComeFromFile ==
    \A group \in DOMAIN vvoters :
        /\ vvoters[group].eligible = 393416 * vtext.pcts[group]
        /\ vvoters[group].potential_turnout.of = 393416 * vtext.pcts[group]

\* ========================================================================
\* spatial_analysis/ca13-gis-maps.py
\* ========================================================================
\* The third-party imports at the top of the module, by line.
module_imports ==
    <<"geopandas", "matplotlib", "contextily">>

Packages == {module_imports[i] : i \in 1..Len(module_imports)}

Shapefiles == {"US_Congressional_Districts.shp", "ca_vest_20.shp", "tl_2022_06_tract.shp"}

\* The four calls of __main__, in order, and the shapefile each reads itself
\* (map_district_13 is handed the frames map_california_districts read).
map_calls ==
    <<[map |-> "california_districts", reads |-> {"US_Congressional_Districts.shp"}],
      [map |-> "district_13", reads |-> {}],
      [map |-> "ca13_precincts", reads |-> {"ca_vest_20.shp"}],
      [map |-> "ca13_demographic_feature", reads |-> {"tl_2022_06_tract.shp"}]>>

\* An import statement: ModuleNotFoundError when the package is missing.
import_ok(package, installed) == package \in installed

\* One of the import statements at lines 1-3, executed when the module is
\* loaded, before anything below them.
ImportStatement ==
    /\ xpc = "import"
    /\ IF import_ok(module_imports[xline], xinstalled)
       THEN /\ xline' = xline + 1
            /\ xpc' = IF xline = Len(module_imports) THEN "check" ELSE "import"
       ELSE /\ xline' = xline
            /\ xpc' = "crashed"
    /\ UNCHANGED <<xstart, xinstalled, xfiles, xcheck, xpip, xmaps, notGIS>>

\* __main__: try: import contextily / except ImportError: pip install, then
\* import again; mapper = CA13GISMapper().
StartupCheck ==
    /\ xpc = "check"
    /\ xcheck' = TRUE
    /\ IF import_ok("contextily", xinstalled)
       THEN /\ xpip' = xpip
            /\ xinstalled' = xinstalled
            /\ xpc' = "maps"
       ELSE /\ xpip' = TRUE
            /\ \E pip_ok \in BOOLEAN :
                  /\ xinstalled' = IF pip_ok THEN xinstalled \cup {"contextily"}
                                   ELSE xinstalled
                  /\ xpc' = IF pip_ok THEN "maps" ELSE "crashed"
    /\ UNCHANGED <<xline, xstart, xfiles, xmaps, notGIS>>

\* The next of the four map calls; gpd.read_file on a missing shapefile
\* raises, and nothing in __main__ catches it.
CreateMap ==
    /\ xpc = "maps"
    /\ LET call == map_calls[Len(xmaps) + 1]
       IN  IF call.reads \subseteq xfiles
           THEN /\ xmaps' = Append(xmaps, call.map)
                /\ xpc' = IF Len(xmaps) + 1 = Len(map_calls) THEN "done" ELSE "maps"
           ELSE /\ xmaps' = xmaps
                /\ xpc' = "crashed"
    /\ UNCHANGED <<xline, xstart, xinstalled, xfiles, xcheck, xpip, notGIS>>

ParkedGIS ==
    /\ xpc = "import"
    /\ xline = 1
    /\ xstart = {}
    /\ xinstalled = {}
    /\ xfiles = {}
    /\ xcheck = FALSE
    /\ xpip = FALSE
    /\ xmaps = <<>>

StartGIS ==
    /\ xpc = "import"
    /\ xline = 1
    /\ xstart \in SUBSET Packages
    /\ xinstalled = xstart
    /\ xfiles \in SUBSET Shapefiles
    /\ xcheck = FALSE
    /\ xpip = FALSE
    /\ xmaps = <<>>

NextGIS ==
    \/ ImportStatement
    \/ StartupCheck
    \/ CreateMap

\* ------------------------------------------------------------------------
\* Claims about ca13-gis-maps.py (checked under SpecGIS)
\* ------------------------------------------------------------------------
\* C17: when the script starts on a machine that has geopandas and
\* matplotlib but not contextily, it does not stop before the start-up check
\* of __main__ has run, the check calls pip install, and a run that reaches
\* its end has installed contextily and created the four maps in order.
C17_InstallsMissingContextily ==
    (xstart = {"geopandas", "matplotlib"}) =>
        /\ xpc = "crashed" => xcheck
        /\ xpc \in {"maps", "done"} => (xpip /\ "contextily" \in xinstalled)
        /\ xpc = "done" => xmaps = <<"california_districts", "district_13",
                                      "ca13_precincts", "ca13_demographic_feature">>

\* ========================================================================
\* Specifications: one per script; the other scripts' variables are parked.
\* ========================================================================
InitFEC == StartFEC /\ ParkedAN /\ ParkedCtor /\ ParkedDP /\ ParkedCD /\ ParkedTP
    /\ ParkedML
    /\ ParkedCC
    /\ ParkedGate
    /\ ParkedFin
    /\ ParkedVoter
    /\ ParkedGIS
SpecFEC == InitFEC /\ [][NextFEC]_vars

InitAnalyzer == StartAN /\ ParkedFEC /\ ParkedCtor /\ ParkedDP /\ ParkedCD /\ ParkedTP
    /\ ParkedML
    /\ ParkedCC
    /\ ParkedGate
    /\ ParkedFin
    /\ ParkedVoter
    /\ ParkedGIS
SpecAnalyzer == InitAnalyzer /\ [][NextAN]_vars

InitCtor == StartCtor /\ ParkedFEC /\ ParkedAN /\ ParkedDP /\ ParkedCD /\ ParkedTP
    /\ ParkedML
    /\ ParkedCC
    /\ ParkedGate
    /\ ParkedFin
    /\ ParkedVoter
    /\ ParkedGIS
SpecCtor == InitCtor /\ [][NextCtor]_vars

InitDistrict == StartDP /\ ParkedFEC /\ ParkedAN /\ ParkedCtor /\ ParkedCD /\ ParkedTP
    /\ ParkedML
    /\ ParkedCC
    /\ ParkedGate
    /\ ParkedFin
    /\ ParkedVoter
    /\ ParkedGIS
SpecDistrict == InitDistrict /\ [][NextDP]_vars

InitCounty == StartCD /\ ParkedFEC /\ ParkedAN /\ ParkedCtor /\ ParkedDP /\ ParkedTP
    /\ ParkedML
    /\ ParkedCC
    /\ ParkedGate
    /\ ParkedFin
    /\ ParkedVoter
    /\ ParkedGIS
SpecCounty == InitCounty /\ [][NextCD]_vars

InitTurnout == StartTP /\ ParkedFEC /\ ParkedAN /\ ParkedCtor /\ ParkedDP /\ ParkedCD
    /\ ParkedML
    /\ ParkedCC
    /\ ParkedGate
    /\ ParkedFin
    /\ ParkedVoter
    /\ ParkedGIS
SpecTurnout == InitTurnout /\ [][NextTP]_vars

InitModels == StartML /\ ParkedFEC /\ ParkedAN /\ ParkedCtor /\ ParkedDP /\ ParkedCD /\ ParkedTP
    /\ ParkedCC
    /\ ParkedGate
    /\ ParkedFin
    /\ ParkedVoter
    /\ ParkedGIS
SpecModels == InitModels /\ [][NextML]_vars

InitCollect == StartCC /\ ParkedFEC /\ ParkedAN /\ ParkedCtor /\ ParkedDP /\ ParkedCD /\ ParkedTP /\ ParkedML
    /\ ParkedGate
    /\ ParkedFin
    /\ ParkedVoter
    /\ ParkedGIS
SpecCollect == InitCollect /\ [][NextCC]_vars

InitGate == StartGate /\ ParkedFEC /\ ParkedAN /\ ParkedCtor /\ ParkedDP /\ ParkedCD /\ ParkedTP /\ ParkedML /\ ParkedCC
    /\ ParkedFin
    /\ ParkedVoter
    /\ ParkedGIS
SpecGate == InitGate /\ [][NextGate]_vars

InitFinance == StartFin /\ ParkedFEC /\ ParkedAN /\ ParkedCtor /\ ParkedDP /\ ParkedCD /\ ParkedTP /\ ParkedML /\ ParkedCC /\ ParkedGate
    /\ ParkedVoter
    /\ ParkedGIS
SpecFinance == InitFinance /\ [][NextFin]_vars

InitVoter == StartVoter /\ ParkedFEC /\ ParkedAN /\ ParkedCtor /\ ParkedDP /\ ParkedCD /\ ParkedTP /\ ParkedML /\ ParkedCC /\ ParkedGate /\ ParkedFin
    /\ ParkedGIS
SpecVoter == InitVoter /\ [][NextVoter]_vars

InitGIS == StartGIS /\ ParkedFEC /\ ParkedAN /\ ParkedCtor /\ ParkedDP /\ ParkedCD /\ ParkedTP /\ ParkedML /\ ParkedCC /\ ParkedGate /\ ParkedFin /\ ParkedVoter
SpecGIS == InitGIS /\ [][NextGIS]_vars

====
